---- MODULE Spec2Model ----
(***************************************************************************)
(* django-elastic-migrations: the version registry (Index, IndexVersion),  *)
(* the action engine (IndexAction.start_action and the perform_action of   *)
(* each kind) and the bulk reindex pipeline (generate_batches,             *)
(* batched_bulk_index, PartialUpdateIndexAction), as state machines.       *)
(***************************************************************************)
EXTENDS Integers, Sequences, FiniteSets, TLC

(***************************************************************************)
(* Bounds of the model.                                                    *)
(***************************************************************************)
MaxOps == 3
MaxVersions == 3
\* of an update: source identifiers, batch size, worker processes
MaxN == 3
MaxB == 3
MaxWorkers == 2

(***************************************************************************)
(* Program constants.                                                      *)
(***************************************************************************)
NULL == 0
\* DEMDocType.MAX_RETRIES: the attempts of one chunk's bulk write
MAX_RETRIES == 5
\* max_retries of add_to_parent_docs_affected
max_retries == 5

\* DEMIndexManager.instances: the registered DEMIndex base names, in the
\* order get_indexes() lists them.
IndexOrder == <<"movies", "books">>
Indexes == {IndexOrder[k] : k \in 1..Len(IndexOrder)}

\* Index.to_dict() of the index class as two builds of the codebase declare
\* it: the fields with their types, in the order of declaration
SchemaDicts ==
    { << <<"title", "text">>, <<"year", "integer">> >>,
      << <<"year", "integer">>, <<"title", "text">> >> }

\* the words a serialized schema is made of
Tokens == <<"title", "text", "year", "integer">>

\* json.dumps(spec): the items in the order the dict yields them
RECURSIVE json_dumps(_)
json_dumps(spec) ==
    IF spec = <<>> THEN <<>>
    ELSE <<Head(spec)[1], Head(spec)[2]>> \o json_dumps(Tail(spec))

\* hashlib.md5 of a string, as a number that tells apart the strings made
\* of Tokens (no two of them collide)
RECURSIVE md5(_)
md5(str) ==
    IF str = <<>> THEN 0
    ELSE (CHOOSE k \in 1..Len(Tokens) : Tokens[k] = Head(str))
            + (Len(Tokens) + 1) * md5(Tail(str))

\* get_index_hash_and_json: the hash of the serialized schema
get_index_hash_and_json(spec) == md5(json_dumps(spec))

\* the schema fingerprints get_index_hash_and_json can return
Schemas == {get_index_hash_and_json(spec) : spec \in SchemaDicts}

environment_prefix == "test_"
\* whether Elasticsearch serves a request or fails it (a TransportError
\* other than 400 and 404)
EsResponses == {"ok", "error"}

\* the answer of Elasticsearch to a create of a name it has: a
\* TransportError with status_code 400
ES_EXISTS == "exists"

\* the process whose DEMIndexManager the model keeps, and any other process
\* of the deployment, which has a DEMIndexManager of its own
THIS_PROCESS == "this"
OTHER_PROCESS == "other"

STATUS_QUEUED == "queued"
STATUS_IN_PROGRESS == "in_progress"
STATUS_COMPLETE == "complete"
STATUS_ABORTED == "aborted"

ACTION_CREATE_INDEX == "create_index"
ACTION_UPDATE_INDEX == "update_index"
ACTION_ACTIVATE_INDEX == "activate_index"
ACTION_CLEAR_INDEX == "clear_index"
ACTION_DROP_INDEX == "drop_index"
ACTION_PARTIAL_UPDATE_INDEX == "partial_update_index"

(***************************************************************************)
(* State.                                                                  *)
(***************************************************************************)
VARIABLES
    index_tbl,          \* Index rows: name -> active_version_id (NULL = none)
    indexversion_tbl,   \* IndexVersion rows, position = id
    indexaction_tbl,    \* IndexAction rows, position = id
    es_indices,         \* ids of the versions whose physical index exists
    index_models,       \* DEMIndexManager.index_models: cached active ids
    doc_type_index,     \* the index option of each doc type class: a version
                        \* id, or NULL for the base name
    es_docs,            \* <<version id, document>>: the documents indexed
    clock,              \* the time of the last save of an IndexAction
    last,               \* the most recent call and how it ended
    pre,                \* the registry as the most recent call found it
    nOps                \* calls made so far

\* one update of one index version, with its chunks
VARIABLES
    qs_ids,             \* the identifiers of the data source, in order
    batch_size,         \* the batch size of the update
    workers,            \* 0: chunks run in the caller; n: n worker processes
    parent_row,         \* the UpdateIndexAction's row
    parent_obj,         \* the UpdateIndexAction object of the calling process
    chunks,             \* the PartialUpdateIndexActions, in creation order
    results,            \* what do_partial_update returned, in arrival order
    lock,               \* the chunk whose transaction holds the parent row
    upd_pc              \* where the update is: idle, running, done, raised

regVars == <<index_tbl, indexversion_tbl, indexaction_tbl, es_indices,
             doc_type_index, es_docs, clock,
             index_models, last, pre, nOps>>

updVars == <<qs_ids, batch_size, workers, parent_row, parent_obj, chunks,
             results, lock, upd_pc>>

\* an es_activate and an es_drop that run at the same time, each in a process
\* of its own
VARIABLES
    activate_proc,      \* the process of the ActivateIndexAction
    drop_proc           \* the process of the DropIndexAction

raceVars == <<activate_proc, drop_proc>>

vars == <<regVars, updVars, raceVars>>

(***************************************************************************)
(* Helpers.                                                                *)
(***************************************************************************)
Max(S) == CHOOSE x \in S : \A y \in S : y <= x

\* the ids of a set, ascending (the order a queryset yields rows in)
RECURSIVE SortedSeq(_)
SortedSeq(S) ==
    IF S = {} THEN <<>>
    ELSE LET m == CHOOSE x \in S : \A y \in S : x <= y
         IN <<m>> \o SortedSeq(S \ {m})

Min(a, b) == IF a < b THEN a ELSE b

\* Python's range(a, stop, step), step > 0
RECURSIVE range(_, _, _)
range(a, stop, step) ==
    IF a >= stop THEN <<>> ELSE <<a>> \o range(a + step, stop, step)

\* Python's seq[a:b] for 0 <= a
Slice(seq, a, b) == SubSeq(seq, a + 1, Min(b, Len(seq)))

\* The database as one value, threaded through a call.
DB == [index |-> index_tbl, iv |-> indexversion_tbl, ia |-> indexaction_tbl,
       es |-> es_indices, cache |-> index_models, dt |-> doc_type_index,
       docs |-> es_docs, now |-> clock]

\* the registry without the action rows, as kept in pre
Registry == [index |-> index_tbl, iv |-> indexversion_tbl,
             es |-> es_indices, cache |-> index_models, docs |-> es_docs]

\* a DEMIndex: base name and version_id (NULL when built from the base name)
DEMIndex(name, version_id) == [base_name |-> name, version_id |-> version_id]

\* an unsaved IndexAction object; pks is the "pks" entry of task_kwargs, the
\* identifiers of the batch of a PartialUpdateIndexAction
NewAction(kind) ==
    [pk |-> NULL, action |-> kind, index |-> "", index_version |-> NULL,
     parent |-> NULL, status |-> STATUS_QUEUED, end |-> FALSE,
     docs_affected |-> 0, log |-> <<>>, pks |-> <<>>]

Ctx(db, act) == [db |-> db, act |-> act, exc |-> "none"]

Raise(c, e) == [c EXCEPT !.exc = e]

\* F applied to the value of x, which is evaluated once
Bind(x, F(_)) == CHOOSE r \in {F(v) : v \in {x}} : TRUE

(***************************************************************************)
(* Index (models.py)                                                       *)
(***************************************************************************)
LiveRows(db) == {v \in DOMAIN db.iv : db.iv[v].row}

get_available_versions(db, i) ==
    {v \in LiveRows(db) : db.iv[v].index = i /\ ~db.iv[v].deleted_time}

get_available_versions_with_prefix(db, i, prefix) ==
    {v \in get_available_versions(db, i) : db.iv[v].prefix = prefix}

\* the available version of the prefix with the lowest id
get_earliest_version(db, i) ==
    Bind(get_available_versions_with_prefix(db, i, environment_prefix),
         LAMBDA s : IF s = {} THEN NULL
                    ELSE CHOOSE v \in s : \A u \in s : v <= u)

get_latest_version(db, i) ==
    Bind(get_available_versions_with_prefix(db, i, environment_prefix),
         LAMBDA s : IF s = {} THEN NULL ELSE Max(s))

\* an id the table gave out before and whose row is gone since
next_id_reuse(db) ==
    IF LiveRows(db) = {} THEN 1 ELSE Max(LiveRows(db)) + 1

\* the id the AutoField of IndexVersion gives a new row: one more than the
\* last id the table gave out, whether or not that row still exists
next_id(db) == Len(db.iv) + 1

\* Index.get_new_version: version.save() of a new IndexVersion, which
\* inserts the row under the next id
get_new_version(db, i, h) ==
    Bind(next_id(db), LAMBDA id :
      Bind([index |-> i, prefix |-> environment_prefix, json_md5 |-> h,
            deleted_time |-> FALSE, row |-> TRUE],
           LAMBDA r :
             [db EXCEPT !.iv = IF id > Len(@) THEN Append(@, r)
                               ELSE [@ EXCEPT ![id] = r]]))

_get_other_versions(db, i, given_version, prefix, older) ==
    LET qs == IF prefix # "" THEN get_available_versions_with_prefix(db, i, prefix)
              ELSE get_available_versions(db, i)
        target_id == IF given_version # NULL THEN given_version
                     ELSE db.index[i]
    IN IF older THEN {v \in qs : v < target_id} ELSE {v \in qs : v > target_id}

(***************************************************************************)
(* IndexVersion (models.py)                                                *)
(***************************************************************************)
is_active_never(db, v) == FALSE

is_active(db, v) == db.index[db.iv[v].index] = v

\* a soft delete that leaves active_version as it is
IndexVersion_delete_keeps_active(db0, v) ==
    [db0 EXCEPT !.iv[v].deleted_time = TRUE]

\* IndexVersion.delete: the soft delete
IndexVersion_delete(db0, v) ==
    Bind(db0, LAMBDA db :
      [db EXCEPT !.index = IF is_active(db, v)
                           THEN [@ EXCEPT ![db.iv[v].index] = NULL] ELSE @,
                 !.iv[v].deleted_time = TRUE])

\* the IndexAction rows a removal of version v cascades to: the rows that
\* refer to v, and the rows below them in the parent tree
RECURSIVE CascadeFrom(_, _)
CascadeFrom(db, S) ==
    Bind({a \in DOMAIN db.ia : db.ia[a].row /\ db.ia[a].parent \in S},
         LAMBDA more : IF more \subseteq S THEN S
                       ELSE CascadeFrom(db, S \cup more))

CascadeOfVersion(db, v) ==
    CascadeFrom(db, {a \in DOMAIN db.ia : db.ia[a].row /\ db.ia[a].index_version = v})

\* IndexVersion.hard_delete: delete(), then the row is removed; the foreign
\* keys cascade (IndexAction.index_version, IndexAction.parent) or are set
\* to null (Index.active_version)
IndexVersion_hard_delete(db0, v) ==
    Bind(IndexVersion_delete(db0, v), LAMBDA d1 :
      Bind(CascadeOfVersion(d1, v), LAMBDA gone :
        [d1 EXCEPT
           !.iv[v].row = FALSE,
           !.ia = [a \in DOMAIN @ |->
                     IF a \in gone THEN [@[a] EXCEPT !.row = FALSE] ELSE @[a]],
           !.index = [i \in DOMAIN @ |-> IF @[i] = v THEN NULL ELSE @[i]]]))

(***************************************************************************)
(* IndexAction (models.py)                                                 *)
(***************************************************************************)
\* Model.save(): an insert when the object has no pk or its row is gone,
\* an update of every column otherwise.  hist is the history of the status
\* values the row has held, and ends the value of end the row was given
\* with each of them.
save(c0) ==
    Bind(c0, LAMBDA c :
     Bind(IF c.act.pk = NULL THEN Len(c.db.ia) + 1 ELSE c.act.pk, LAMBDA pk :
      Bind(IF pk <= Len(c.db.ia) THEN c.db.ia[pk].hist ELSE <<>>, LAMBDA old :
       Bind(old # <<>> /\ old[Len(old)] = c.act.status, LAMBDA same :
        Bind([action |-> c.act.action, index |-> c.act.index,
              last_modified |-> c.db.now + 1,
              index_version |-> c.act.index_version,
              parent |-> c.act.parent,
              status |-> c.act.status, end |-> c.act.end,
              docs_affected |-> c.act.docs_affected, log |-> c.act.log,
              pks |-> c.act.pks,
              hist |-> IF same THEN old ELSE Append(old, c.act.status),
              ends |-> IF same THEN c.db.ia[pk].ends
                       ELSE Append(IF pk <= Len(c.db.ia)
                                   THEN c.db.ia[pk].ends ELSE <<>>,
                                   c.act.end),
              row |-> TRUE],
             LAMBDA r :
               [c EXCEPT !.act.pk = pk,
                         !.db.now = c.db.now + 1,
                         !.db.ia = IF pk > Len(@) THEN Append(@, r)
                                   ELSE [@ EXCEPT ![pk] = r]])))))

add_log(c, msg) == save([c EXCEPT !.act.log = Append(@, msg)])

to_in_progress(c) == save([c EXCEPT !.act.status = STATUS_IN_PROGRESS])

to_complete(c) ==
    save([c EXCEPT !.act.status = STATUS_COMPLETE, !.act.end = TRUE])

to_aborted_no_end(c) == save([c EXCEPT !.act.status = STATUS_ABORTED])

to_aborted(c) ==
    save([c EXCEPT !.act.status = STATUS_ABORTED, !.act.end = TRUE])

(***************************************************************************)
(* DEMIndexManager / DEMIndex (indexes.py)                                 *)
(***************************************************************************)
\* DEMIndexManager.update_index_models: reload every Index row
update_index_models(db0) == Bind(db0, LAMBDA db : [db EXCEPT !.cache = db.index])

\* an initialize that leaves the cached Index models as they are
initialize_keeps_models(db) == db

\* DEMIndexManager.initialize() with no flags, as the actions call it
initialize(db) == update_index_models(db)

\* DEMIndexManager.get_active_index_version: the active version of the
\* cached Index object
get_active_index_version(db, i) == db.cache[i]

\* IndexVersion.name: the prefix, the base name and the id, as the parts of
\* "{environment_prefix}{base_name}-{id}"
IndexVersion_name(db, v) == <<db.iv[v].prefix, db.iv[v].index, v>>

\* DEMIndexManager.get_active_index_version_name, which DEMIndex._name and
\* the doc type's index read; <<>> stands for the empty name
get_active_index_version_name(db, i) ==
    IF get_active_index_version(db, i) # NULL
    THEN IndexVersion_name(db, get_active_index_version(db, i))
    ELSE <<>>

\* DEMIndex.get_version_model: the row with that id, whatever its index and
\* whether or not it is soft-deleted; the cached Index's active version
\* for a DEMIndex built from the base name
get_version_model(db, dem) ==
    IF dem.version_id # NULL
    THEN IF dem.version_id \in LiveRows(db) THEN dem.version_id ELSE NULL
    ELSE db.cache[dem.base_name]

hash_matches_never(db, v, h) == FALSE

\* DEMIndex.hash_matches, against the json_md5 of version v
hash_matches(db, v, h) == h = db.iv[v].json_md5

\* es_client.indices.delete(index=name, ignore=[404])
delete_es_created_index(db, v) == [db EXCEPT !.es = @ \ {v}]

\* DEMIndex.delete: the physical index goes (400 and 404 ignored), then the
\* version is soft-deleted
DEMIndex_delete(db0, dem) ==
    Bind(db0, LAMBDA db :
      Bind(get_version_model(db, dem), LAMBDA v :
        IndexVersion_delete(delete_es_created_index(db, v), v)))

\* DEMIndex.create_if_not_in_es, for the version the DEMIndex resolves to
\* (get_es_index_name); no name when it resolves to none
create_if_not_in_es(c0, dem) ==
    Bind(c0, LAMBDA c :
      Bind(get_version_model(c.db, dem), LAMBDA v :
        IF v = NULL THEN Raise(c, "ValueError")
        ELSE IF v \notin LiveRows(c.db) THEN Raise(c, "DoesNotExist")
        ELSE add_log([c EXCEPT !.db.es = @ \cup {v}],
                     IF v \in c.db.es THEN <<"did not create", v, "es">>
                     ELSE <<"recreated", v, "es">>)))

\* a create that keeps the new row when the physical create fails
DEMIndex_create_keeps_row(c0, h, es_resp) ==
    Bind(c0, LAMBDA c :
      Bind(next_id(c.db), LAMBDA id :
        Bind(get_new_version(c.db, c.act.index, h), LAMBDA d1 :
          IF es_resp \in {"ok", ES_EXISTS}
          THEN [c EXCEPT !.db = [d1 EXCEPT !.es = @ \cup {id}],
                         !.act.index_version = id]
          ELSE Raise([c EXCEPT !.db = d1], "TransportError"))))

\* DEMIndex.create: a new IndexVersion row, then the physical index.  A
\* TransportError with status 400 ("already exists") returns the new row as
\* a success does, the physical index of that name being there; any other
\* exception soft-deletes the new row and is raised again.
DEMIndex_create(c0, h, es_resp) ==
    Bind(c0, LAMBDA c :
      Bind(next_id(c.db), LAMBDA id :
        Bind(get_new_version(c.db, c.act.index, h), LAMBDA d1 :
          IF es_resp \in {"ok", ES_EXISTS}
          THEN [c EXCEPT !.db = [d1 EXCEPT !.es = @ \cup {id}],
                         !.act.index_version = id]
          ELSE Raise([c EXCEPT !.db = IndexVersion_delete(d1, id)],
                     "TransportError"))))

(***************************************************************************)
(* IndexAction.start_action, in two halves around perform_action           *)
(***************************************************************************)
\* get_or_create of the Index row, then to_in_progress
start_action_begin(c0, dem) ==
    Bind(c0, LAMBDA c :
      to_in_progress(
        [c EXCEPT !.db.index = IF dem.base_name \in DOMAIN @ THEN @
                               ELSE [n \in DOMAIN @ \cup {dem.base_name} |->
                                       IF n \in DOMAIN @ THEN @[n] ELSE NULL],
                  !.act.index = dem.base_name,
                  !.exc = "none"]))

\* perform_action returned: to_complete; it raised: the exception goes to
\* the log, to_aborted, and the exception is raised again
start_action_end(c0) ==
    Bind(c0, LAMBDA c :
      IF c.exc = "none" THEN to_complete(c)
      ELSE to_aborted(add_log(c, <<"exception", 0, c.exc>>)))

(***************************************************************************)
(* ActivateIndexAction.perform_action                                      *)
(***************************************************************************)
Activate_perform(c0, dem) ==
    Bind(c0, LAMBDA c :
      IF dem.version_id # NULL
      THEN Bind(get_version_model(c.db, dem), LAMBDA vm :
             IF vm = NULL THEN Raise(c, "AttributeError")
             ELSE Bind(add_log([c EXCEPT !.act.index_version = vm],
                               <<"activating", vm, "explicit">>),
                       LAMBDA c2 :
                         [c2 EXCEPT !.db = initialize(
                              [c2.db EXCEPT !.index[c.act.index] = vm])]))
      ELSE Bind(get_latest_version(c.db, c.act.index), LAMBDA latest_version :
             IF latest_version = NULL THEN Raise(c, "NoCreatedIndexVersion")
             ELSE IF c.db.index[c.act.index] # latest_version
             THEN add_log(
                    [c EXCEPT !.db = initialize(
                         [c.db EXCEPT !.index[c.act.index] = latest_version])],
                    <<"activating", latest_version, "latest">>)
             ELSE add_log(c, <<"already active", latest_version, "no action">>)))

(***************************************************************************)
(* CreateIndexAction.perform_action                                        *)
(***************************************************************************)
\* es_only: every available version of the prefix is created physically
\* where it is missing
Create_es_only_nothing(c0, vs) == c0

RECURSIVE Create_es_only(_, _)
Create_es_only(c0, vs) ==
    IF vs = <<>> THEN c0
    ELSE Bind(c0, LAMBDA c :
           Create_es_only(
             add_log([c EXCEPT !.db.es = @ \cup {Head(vs)}],
                     IF Head(vs) \notin c.db.es
                     THEN <<"recreated", Head(vs), "es">>
                     ELSE <<"already created", Head(vs), "es">>),
             Tail(vs)))

Create_perform(c0, dem, p) ==
    Bind(c0, LAMBDA c :
      Bind(get_latest_version(c.db, c.act.index), LAMBDA latest_version :
        IF p.es_only
        THEN Create_es_only(c, SortedSeq(
                get_available_versions_with_prefix(c.db, c.act.index,
                                                   environment_prefix)))
        ELSE IF latest_version # NULL /\ hash_matches(c.db, latest_version, p.h)
        THEN IF p.force
             THEN DEMIndex_create(
                    add_log([c EXCEPT !.act.index_version = latest_version],
                            <<"not changed", latest_version, "force">>),
                    p.h, p.es_resp)
             ELSE create_if_not_in_es(
                    add_log([c EXCEPT !.act.index_version = latest_version],
                            <<"not changed", latest_version, "">>),
                    dem)
        ELSE Bind(DEMIndex_create(c, p.h, p.es_resp), LAMBDA c1 :
               IF c1.exc # "none" THEN c1
               ELSE add_log(c1, <<"changed", c1.act.index_version, "created">>))))

(***************************************************************************)
(* DropIndexAction.perform_action                                          *)
(***************************************************************************)
\* the branch for a DEMIndex with a version id, older_mode off
Drop_exact(c0, dem, p) ==
    Bind(c0, LAMBDA c :
      Bind(get_version_model(c.db, dem), LAMBDA vm :
        IF vm = NULL THEN Raise(c, "AttributeError")
        ELSE IF is_active(c.db, vm) /\ ~p.force
        THEN Raise([c EXCEPT !.act.index_version = vm],
                   "CannotDropActiveVersionWithoutForceArg")
        ELSE IF p.es_only
        THEN Bind(add_log([c EXCEPT !.act.index_version = vm],
                          <<"dropping", vm, "es only">>),
                  LAMBDA c2 : [c2 EXCEPT !.db = delete_es_created_index(@, vm)])
        ELSE Bind(add_log([c EXCEPT !.act.index_version = vm],
                          <<"dropping", vm, "">>),
                  LAMBDA c2 :
                    IF p.hard_delete
                    THEN [c2 EXCEPT
                            !.db = IndexVersion_hard_delete(
                                      DEMIndex_delete(@, dem), vm),
                            !.act.index_version = NULL]
                    ELSE [c2 EXCEPT !.db = DEMIndex_delete(@, dem)])))

\* one round of the loop over available_versions of a forced drop by base
\* name: the physical index (a 404 is logged), then the version row
Drop_version(c0, v, p) ==
    Bind(add_log(c0, <<"dropping", v, "force">>), LAMBDA c1 :
      Bind(IF v \in c1.db.es
           THEN [c1 EXCEPT !.db = delete_es_created_index(@, v)]
           ELSE add_log(c1, <<"not in es", v, "">>),
           LAMBDA c2 :
             IF p.es_only THEN c2
             ELSE IF p.hard_delete
             THEN [c2 EXCEPT !.db = IndexVersion_hard_delete(@, v),
                             !.act.index_version = NULL]
             ELSE IF v \notin c1.db.es /\ c2.db.iv[v].deleted_time
             THEN add_log(c2, <<"already deleted", v, "">>)
             ELSE [c2 EXCEPT !.db = IndexVersion_delete(@, v)]))

\* a loop that drops the first of the versions only
Drop_versions_first(c0, vs, p, count) ==
    IF vs = <<>> THEN c0 ELSE Drop_version(c0, Head(vs), p)

RECURSIVE Drop_versions(_, _, _, _)
Drop_versions(c0, vs, p, count) ==
    IF vs = <<>> THEN add_log(c0, <<"done dropping", count, "">>)
    ELSE Bind(c0, LAMBDA c :
           Drop_versions(
             Drop_version(c, Head(vs), p), Tail(vs), p,
             IF Head(vs) \notin c.db.es /\ ~p.es_only /\ ~p.hard_delete
                /\ c.db.iv[Head(vs)].deleted_time
             THEN count ELSE count + 1))

(***************************************************************************)
(* IndexAction.check_child_statuses                                        *)
(***************************************************************************)
children(db, pk) ==
    {a \in DOMAIN db.ia : db.ia[a].row /\ db.ia[a].parent = pk}

\* exclude(status__in="complete") compares each status with the letters of
\* the word, so it excludes no row
bad_children(db, pk) == children(db, pk)

RECURSIVE LogChildren(_, _)
LogChildren(c0, ids) ==
    IF ids = <<>> THEN c0
    ELSE Bind(c0, LAMBDA c :
           LogChildren(
             [c EXCEPT !.act.log =
                Append(@, <<"bad child", Head(ids), c.db.ia[Head(ids)].status>>)],
             Tail(ids)))

check_child_statuses(c0) ==
    Bind(c0, LAMBDA c :
      IF \A a \in children(c.db, c.act.pk) : c.db.ia[a].status = STATUS_COMPLETE
      THEN add_log(c, <<"all children complete", 0, "">>)
      ELSE Bind(add_log(c, <<"not all children complete", 0, "">>), LAMBDA c1 :
             save(LogChildren(c1, SortedSeq(bad_children(c1.db, c1.act.pk))))))

(***************************************************************************)
(* GenericModeMixin._apply_to for DropIndexAction children                 *)
(***************************************************************************)
\* one child row per version, made from the one child object: its pk is
\* reset, its other fields are what the previous child left
RECURSIVE Drop_children(_, _, _, _)
Drop_children(c0, child, vs, p) ==
    IF vs = <<>> THEN c0
    ELSE Bind(c0, LAMBDA c :
           Bind(start_action_end(
                  Drop_exact(
                    start_action_begin(
                      save(Ctx(c.db, [child EXCEPT !.index_version = Head(vs),
                                                   !.pk = NULL,
                                                   !.docs_affected = 0])),
                      DEMIndex(c.db.iv[Head(vs)].index, Head(vs))),
                    DEMIndex(c.db.iv[Head(vs)].index, Head(vs)), p)),
                LAMBDA k1 :
                  IF k1.exc # "none"
                  THEN Raise([c EXCEPT !.db = k1.db], k1.exc)
                  ELSE Drop_children([c EXCEPT !.db = k1.db], k1.act,
                                     Tail(vs), p)))

Drop_apply_to_older(c0, versions, p) ==
    IF versions = {}
    THEN add_log(c0, <<"no older_mode versions", 0, "">>)
    ELSE Bind(add_log(c0, <<"applying", Cardinality(versions), "older_mode">>),
              LAMBDA c1 :
           Bind(Drop_children(c1,
                              [NewAction(ACTION_DROP_INDEX) EXCEPT
                                 !.parent = c1.act.pk, !.index = c1.act.index],
                              SortedSeq(versions), p),
                LAMBDA c2 :
                  IF c2.exc # "none" THEN c2
                  ELSE add_log(check_child_statuses(c2),
                               <<"done applying", Cardinality(versions),
                                 "older_mode">>)))

Drop_perform(c0, dem, p) ==
    Bind(c0, LAMBDA c :
      IF dem.version_id # NULL
      THEN IF p.older_mode
           THEN Drop_apply_to_older(c,
                   _get_other_versions(c.db, c.act.index,
                                       get_version_model(c.db, dem),
                                       p.just_prefix, TRUE),
                   [p EXCEPT !.older_mode = FALSE])
           ELSE Drop_exact(c, dem, p)
      ELSE IF get_latest_version(c.db, c.act.index) = NULL
      THEN add_log(c, <<"no created versions", 0, "">>)
      ELSE IF ~p.force
      THEN IF p.older_mode
           THEN Raise(c, "CannotDropOlderIndexesWithoutForceArg")
           ELSE Raise(c, "IndexVersionRequired")
      ELSE IF p.older_mode
      THEN Drop_apply_to_older(c,
              _get_other_versions(c.db, c.act.index, c.db.index[c.act.index],
                                  p.just_prefix, TRUE),
              [p EXCEPT !.older_mode = FALSE, !.es_only = FALSE])
      ELSE Drop_versions(c,
              SortedSeq(IF p.just_prefix # ""
                        THEN get_available_versions_with_prefix(
                                c.db, c.act.index, p.just_prefix)
                        ELSE get_available_versions(c.db, c.act.index)),
              p, 0))

(***************************************************************************)
(* ClearIndexAction.perform_action                                         *)
(***************************************************************************)
\* DEMIndex.clear: delete by query of every document of the index named v;
\* Elasticsearch answers 404 when there is no such index
DEMIndex_clear(c0, v) ==
    IF v \notin c0.db.es THEN Raise(c0, "NotFoundError")
    ELSE [c0 EXCEPT !.db.docs = {d \in @ : d[1] # v}]

\* a DEMIndex with a version id, older_mode off: the version of the id is
\* recorded and cleared
Clear_exact(c0, dem) ==
    Bind(c0, LAMBDA c :
      Bind(get_version_model(c.db, dem), LAMBDA vm :
        IF vm = NULL THEN Raise(c, "AttributeError")
        ELSE Bind(DEMIndex_clear([c EXCEPT !.act.index_version = vm], vm),
                  LAMBDA c1 :
                    IF c1.exc # "none" THEN c1
                    ELSE add_log(c1, <<"cleared", vm, "explicit">>))))

\* GenericModeMixin._apply_to for ClearIndexAction children
RECURSIVE Clear_children(_, _, _)
Clear_children(c0, child, vs) ==
    IF vs = <<>> THEN c0
    ELSE Bind(c0, LAMBDA c :
           Bind(start_action_end(
                  Clear_exact(
                    start_action_begin(
                      save(Ctx(c.db, [child EXCEPT !.index_version = Head(vs),
                                                   !.pk = NULL,
                                                   !.docs_affected = 0])),
                      DEMIndex(c.db.iv[Head(vs)].index, Head(vs))),
                    DEMIndex(c.db.iv[Head(vs)].index, Head(vs)))),
                LAMBDA k1 :
                  IF k1.exc # "none"
                  THEN Raise([c EXCEPT !.db = k1.db], k1.exc)
                  ELSE Clear_children([c EXCEPT !.db = k1.db], k1.act,
                                      Tail(vs))))

Clear_apply_to_older(c0, versions) ==
    IF versions = {}
    THEN add_log(c0, <<"no older_mode versions", 0, "">>)
    ELSE Bind(add_log(c0, <<"applying", Cardinality(versions), "older_mode">>),
              LAMBDA c1 :
           Bind(Clear_children(c1,
                               [NewAction(ACTION_CLEAR_INDEX) EXCEPT
                                  !.parent = c1.act.pk, !.index = c1.act.index],
                               SortedSeq(versions)),
                LAMBDA c2 :
                  IF c2.exc # "none" THEN c2
                  ELSE add_log(check_child_statuses(c2),
                               <<"done applying", Cardinality(versions),
                                 "older_mode">>)))

\* ClearIndexAction.perform_action.  By base name the action records the
\* latest version and DEMIndex.clear goes to the index DEMIndex._name
\* gives, the active version of the cached Index; the message for an Index
\* without an active version has a placeholder that is not filled in
\* (KeyError)
Clear_perform(c0, dem, p) ==
    Bind(c0, LAMBDA c :
      IF dem.version_id # NULL
      THEN IF p.older_mode
           THEN Clear_apply_to_older(c,
                   _get_other_versions(c.db, c.act.index,
                                       get_version_model(c.db, dem),
                                       environment_prefix, TRUE))
           ELSE Clear_exact(c, dem)
      ELSE IF get_latest_version(c.db, c.act.index) = NULL
      THEN Raise(c, "NoCreatedIndexVersion")
      ELSE IF c.db.index[c.act.index] = NULL
      THEN Raise(c, "KeyError")
      ELSE Bind([c EXCEPT !.act.index_version =
                             get_latest_version(c.db, c.act.index)],
                LAMBDA c1 :
             IF p.older_mode
             THEN Clear_apply_to_older(c1,
                     _get_other_versions(c1.db, c1.act.index,
                                         c1.db.index[c1.act.index],
                                         environment_prefix, TRUE))
             ELSE Bind(DEMIndex_clear(
                         c1, get_active_index_version(c1.db, c1.act.index)),
                       LAMBDA c2 :
                         IF c2.exc # "none" THEN c2
                         ELSE add_log(c2, <<"cleared",
                                           get_active_index_version(
                                              c2.db, c2.act.index),
                                           "active">>))))

(***************************************************************************)
(* UpdateIndexAction as one call (models.py, indexes.py): the update of a  *)
(* version with the batches run in the calling process (workers = 0), and  *)
(* the newer mode.                                                         *)
(***************************************************************************)
\* the documents of the data source, and when each was last modified: one
\* before every action, one after every action
SourceDocs == {1, 2}
DOC_MODIFIED == <<0, 1000>>

\* DEMDocType.BATCH_SIZE, scaled to the data source
BATCH_SIZE == 1

\* get_queryset of the doc type (tests/search.py): every document, or the
\* documents modified at or after the cutoff
get_queryset(last_updated_datetime) ==
    {d \in SourceDocs : last_updated_datetime = NULL
                           \/ DOC_MODIFIED[d] >= last_updated_datetime}

\* a cutoff taken from the last update action of the version, whatever
\* its status
get_last_time_update_called_any(db, v) ==
    Bind({a \in DOMAIN db.ia : db.ia[a].row /\ db.ia[a].index_version = v
                                  /\ db.ia[a].action = ACTION_UPDATE_INDEX},
         LAMBDA qs : IF qs = {} THEN NULL ELSE db.ia[Max(qs)].last_modified)

\* IndexVersion.get_last_time_update_called: last_modified of the last row,
\* by id, among the completed update actions of version v; the filter on
\* before_action is built and dropped
get_last_time_update_called(db, v) ==
    Bind({a \in DOMAIN db.ia : db.ia[a].row /\ db.ia[a].index_version = v
                                  /\ db.ia[a].action = ACTION_UPDATE_INDEX
                                  /\ db.ia[a].status = STATUS_COMPLETE},
         LAMBDA qs : IF qs = {} THEN NULL ELSE db.ia[Max(qs)].last_modified)

\* a doc type whose index option always follows the version asked for
DEMIndex_doc_type_always(db0, dem, h) ==
    IF dem.version_id = NULL THEN db0
    ELSE [db0 EXCEPT !.dt[dem.base_name] = dem.version_id]

\* DEMIndex.doc_type() of a DEMIndex with a version id: the index option of
\* the doc type class is set to the name of the version, and set back to
\* what it was when the schema hash of the version is not the hash of the
\* code
DEMIndex_doc_type(db0, dem, h) ==
    IF dem.version_id = NULL THEN db0
    ELSE Bind(db0, LAMBDA db :
           Bind(get_version_model(db, dem), LAMBDA vm :
             [db EXCEPT !.dt[dem.base_name] =
                          IF hash_matches(db, vm, h) THEN vm ELSE @]))

\* the index a document of the doc type is written to: the version of the
\* index option, else what _DEMDocTypeIndexHandler makes of the base name,
\* the cached active version; NULL stands for the index of the base name
doc_type_index_name(db, i) ==
    IF db.dt[i] # NULL THEN db.dt[i] ELSE get_active_index_version(db, i)

\* DEMDocType.bulk_index of the documents pks
bulk_index(db, i, pks) ==
    [db EXCEPT !.docs = @ \cup {<<doc_type_index_name(db, i), pks[k]>> :
                                  k \in 1..Len(pks)}]

\* IndexAction.add_to_parent_docs_affected: the parent row is read under a
\* lock, increased and saved
add_to_parent_docs_affected(c0, num_docs) ==
    IF num_docs = 0 \/ c0.act.parent = NULL THEN c0
    ELSE Bind(c0, LAMBDA c :
           [c EXCEPT !.db.ia[c.act.parent].docs_affected = @ + num_docs,
                     !.db.ia[c.act.parent].last_modified = c.db.now + 1,
                     !.db.now = @ + 1])

\* PartialUpdateIndexAction.perform_action: prepare_action, the doc type of
\* the version, bulk_index with its retries; an answer other than "ok" is
\* an exception at every try, raised after the last
PartialUpdate_perform(c0, dem, pks, p) ==
    Bind(c0, LAMBDA c :
      Bind(get_version_model(c.db, dem), LAMBDA vm :
        IF vm = NULL THEN Raise(c, "IllegalDEMIndexState")
        ELSE Bind(add_log(add_log([c EXCEPT !.act.index_version = vm],
                                  <<"manually specified", vm, "">>),
                          <<"starting batch", vm, "">>),
                  LAMBDA c1 :
               IF p.es_resp # "ok" THEN Raise(c1, "BulkIndexError")
               ELSE Bind([c1 EXCEPT
                            !.db = bulk_index(DEMIndex_doc_type(@, dem, p.h),
                                              dem.base_name, pks),
                            !.act.docs_affected = Len(pks)],
                         LAMBDA c2 :
                           add_log(add_to_parent_docs_affected(c2, Len(pks)),
                                   <<"completed batch", Len(pks), "">>)))))

\* the IndexAction object of a row, as objects.get(id=pk) builds it
action_of_row(db, pk) ==
    [pk |-> pk, action |-> db.ia[pk].action, index |-> db.ia[pk].index,
     index_version |-> db.ia[pk].index_version, parent |-> db.ia[pk].parent,
     status |-> db.ia[pk].status, end |-> db.ia[pk].end,
     docs_affected |-> db.ia[pk].docs_affected, log |-> db.ia[pk].log,
     pks |-> db.ia[pk].pks]

\* PartialUpdateIndexAction.do_partial_update: the action of the row is
\* started for the DEMIndex of its version, with the pks of its task_kwargs
do_partial_update(db, pk, p) ==
    Bind(DEMIndex(db.ia[pk].index, db.ia[pk].index_version), LAMBDA dem :
      start_action_end(
        PartialUpdate_perform(
          start_action_begin(Ctx(db, action_of_row(db, pk)), dem),
          dem, db.ia[pk].pks, p)))

\* generate_batches: one queued PartialUpdateIndexAction row for each batch
\* of the ids, created in bulk
RECURSIVE bulk_create(_, _, _)
bulk_create(c0, ids, starts) ==
    IF starts = <<>> THEN c0
    ELSE bulk_create(
           [c0 EXCEPT
              !.db.ia = Append(@,
                 [action |-> ACTION_PARTIAL_UPDATE_INDEX,
                  index |-> c0.act.index,
                  last_modified |-> c0.db.now + 1,
                  index_version |-> c0.act.index_version,
                  parent |-> c0.act.pk, status |-> STATUS_QUEUED,
                  end |-> FALSE, docs_affected |-> 0, log |-> <<>>,
                  pks |-> Slice(ids, Head(starts),
                                Min(Head(starts) + BATCH_SIZE, Len(ids))),
                  hist |-> <<STATUS_QUEUED>>, ends |-> <<FALSE>>,
                  row |-> TRUE]),
              !.db.now = @ + 1],
           ids, Tail(starts))

\* the loop over sub_action_ids for workers = 0: each child row of the
\* action in turn; an exception of a batch ends the loop and the update
RECURSIVE run_batches(_, _, _)
run_batches(c0, sub_action_ids, p) ==
    IF sub_action_ids = <<>> THEN c0
    ELSE Bind(do_partial_update(c0.db, Head(sub_action_ids), p),
              LAMBDA k :
                IF k.exc # "none" THEN Raise([c0 EXCEPT !.db = k.db], k.exc)
                ELSE run_batches(
                       [c0 EXCEPT !.db = k.db,
                                  !.act.docs_affected = @ + k.act.docs_affected],
                       Tail(sub_action_ids), p))

\* DEMDocType.batched_bulk_index for an update action: the batches of the
\* queryset of the cutoff are queued and run; then refresh_from_db, and
\* docs_affected is the sum of the successes the batches returned
batched_bulk_index(c0, last_updated_datetime, p) ==
    Bind(SortedSeq(get_queryset(last_updated_datetime)), LAMBDA ids :
      Bind(add_log(add_log(c0, <<"START getting ids", 0, "">>),
                   <<"END getting ids", Len(ids), "">>),
           LAMBDA c1 :
        Bind(add_log(bulk_create(c1, ids, range(0, Len(ids), BATCH_SIZE)),
                     <<"done queueing", Len(ids), "">>),
             LAMBDA c2 :
               run_batches([c2 EXCEPT !.act.docs_affected = 0],
                           SortedSeq(children(c2.db, c2.act.pk)), p))))

\* UpdateIndexAction.perform_action once index_version is set.  For a
\* DEMIndex of an unregistered base name dem_index.doc_type() fails, its
\* get_dem_index(base name) being None (AttributeError).  Else the cutoff
\* is start_date, else with resume_mode the time of the last completed
\* update of the version, else none
Update_version(c0, dem, p) ==
    IF dem.base_name \notin Indexes THEN Raise(c0, "AttributeError")
    ELSE
    Bind(c0, LAMBDA c :
      Bind(IF p.start_date # NULL THEN p.start_date
           ELSE IF p.resume_mode
           THEN get_last_time_update_called(c.db, c.act.index_version)
           ELSE NULL,
           LAMBDA _last_update :
        Bind(add_log(
               IF p.start_date # NULL
               THEN add_log(c, <<"start detected", _last_update, "">>)
               ELSE IF p.resume_mode
               THEN add_log(c, <<"resume", _last_update, "">>)
               ELSE c,
               <<"starting batched bulk update", 0, "">>),
             LAMBDA c1 :
          Bind(batched_bulk_index(
                 [c1 EXCEPT !.db = DEMIndex_doc_type(@, dem, p.h)],
                 _last_update, p),
               LAMBDA c2 :
                 IF c2.exc # "none" THEN c2
                 ELSE add_log(check_child_statuses(c2),
                              <<"completed updating", c2.act.docs_affected,
                                "">>)))))

\* prepare_action and perform_action for a DEMIndex with a version id,
\* newer_mode off
Update_exact(c0, dem, p) ==
    Bind(c0, LAMBDA c :
      Bind(get_version_model(c.db, dem), LAMBDA vm :
        IF vm = NULL THEN Raise(c, "IllegalDEMIndexState")
        ELSE Update_version(
               add_log([c EXCEPT !.act.index_version = vm],
                       <<"manually specified", vm, "">>),
               dem, p)))

\* GenericModeMixin._apply_to for UpdateIndexAction children: one child
\* row for each version, made from the one child object
RECURSIVE Update_children(_, _, _, _)
Update_children(c0, child, vs, p) ==
    IF vs = <<>> THEN c0
    ELSE Bind(c0, LAMBDA c :
           Bind(start_action_end(
                  Update_exact(
                    start_action_begin(
                      save(Ctx(c.db, [child EXCEPT !.index_version = Head(vs),
                                                   !.pk = NULL,
                                                   !.docs_affected = 0])),
                      DEMIndex(c.db.iv[Head(vs)].index, Head(vs))),
                    DEMIndex(c.db.iv[Head(vs)].index, Head(vs)), p)),
                LAMBDA k1 :
                  IF k1.exc # "none"
                  THEN Raise([c EXCEPT !.db = k1.db], k1.exc)
                  ELSE Update_children([c EXCEPT !.db = k1.db], k1.act,
                                       Tail(vs), p)))

RECURSIVE sum_docs_affected(_, _)
sum_docs_affected(db, ids) ==
    IF ids = <<>> THEN 0
    ELSE db.ia[Head(ids)].docs_affected + sum_docs_affected(db, Tail(ids))

\* a newer mode that also updates the version it starts from
get_newer_versions_and_given(db, i, given_version) ==
    {v \in get_available_versions_with_prefix(db, i, environment_prefix) :
        v >= given_version}

\* Index.get_newer_versions
get_newer_versions(db, i, given_version) ==
    _get_other_versions(db, i, given_version, environment_prefix, FALSE)

\* UpdateIndexAction.apply_to_newer, then the newer_mode branch of
\* perform_action: docs_affected is the sum over the children
Update_newer(c0, given_version, p) ==
    Bind(get_newer_versions(c0.db, c0.act.index, given_version),
         LAMBDA versions :
      Bind(IF versions = {}
           THEN add_log(c0, <<"no newer_mode versions", 0, "">>)
           ELSE Bind(add_log(c0, <<"applying", Cardinality(versions),
                                   "newer_mode">>),
                     LAMBDA c1 :
                  Bind(Update_children(
                         c1,
                         [NewAction(ACTION_UPDATE_INDEX) EXCEPT
                            !.parent = c1.act.pk, !.index = c1.act.index],
                         SortedSeq(versions), [p EXCEPT !.newer_mode = FALSE]),
                       LAMBDA c2 :
                         IF c2.exc # "none" THEN c2
                         ELSE add_log(check_child_statuses(c2),
                                      <<"done applying", Cardinality(versions),
                                        "newer_mode">>))),
           LAMBDA c3 :
             IF c3.exc # "none" THEN c3
             ELSE Bind(sum_docs_affected(
                         c3.db, SortedSeq(children(c3.db, c3.act.pk))),
                       LAMBDA docs_affected :
                    add_log([c3 EXCEPT !.act.docs_affected = docs_affected],
                            <<"completed newer", docs_affected, "">>))))

\* UpdateIndexAction.perform_action
Update_perform(c0, dem, p) ==
    Bind(c0, LAMBDA c :
      IF dem.version_id # NULL
      THEN IF p.newer_mode
           THEN Bind(get_version_model(c.db, dem), LAMBDA vm :
                  IF vm = NULL THEN Raise(c, "IllegalDEMIndexState")
                  ELSE Update_newer(c, vm, p))
           ELSE Update_exact(c, dem, p)
      ELSE IF get_latest_version(c.db, c.act.index) = NULL
      THEN Raise(c, "NoCreatedIndexVersion")
      ELSE IF c.db.index[c.act.index] = NULL
      THEN Raise(c, "NoActiveIndexVersion")
      ELSE IF p.newer_mode
      THEN Update_newer(c, c.db.index[c.act.index], p)
      ELSE Update_version(
             add_log([c EXCEPT !.act.index_version = c.db.index[c.act.index]],
                     <<"active version", c.db.index[c.act.index], "">>),
             dem, p))

(***************************************************************************)
(* DEMIndexManager._start_action_for_indexes                               *)
(***************************************************************************)
\* the flags a call carries; h is the schema hash of the index class and
\* es_resp the answer of Elasticsearch to a create
Params(kind, force, es_only, older_mode, hard_delete, just_prefix, h, es_resp) ==
    [kind |-> kind, force |-> force, es_only |-> es_only,
     hard_delete |-> hard_delete, older_mode |-> older_mode,
     just_prefix |-> just_prefix, h |-> h, es_resp |-> es_resp,
     newer_mode |-> FALSE, resume_mode |-> FALSE, start_date |-> NULL]

\* the flags of an update
UpdateParams(newer_mode, resume_mode, start_date, h, es_resp) ==
    [kind |-> ACTION_UPDATE_INDEX, force |-> FALSE, es_only |-> FALSE,
     hard_delete |-> FALSE, older_mode |-> FALSE, just_prefix |-> "",
     h |-> h, es_resp |-> es_resp, newer_mode |-> newer_mode,
     resume_mode |-> resume_mode, start_date |-> start_date]

perform_action(c, dem, p) ==
    CASE p.kind = ACTION_CREATE_INDEX -> Create_perform(c, dem, p)
      [] p.kind = ACTION_ACTIVATE_INDEX -> Activate_perform(c, dem)
      [] p.kind = ACTION_DROP_INDEX -> Drop_perform(c, dem, p)
      [] p.kind = ACTION_CLEAR_INDEX -> Clear_perform(c, dem, p)
      [] p.kind = ACTION_UPDATE_INDEX -> Update_perform(c, dem, p)

start_action(c, dem, p) ==
    start_action_end(perform_action(start_action_begin(c, dem), dem, p))

\* the loop over dem_indexes: the one action object is started for each
RECURSIVE start_each(_, _, _)
start_each(c0, dems, p) ==
    IF dems = <<>> THEN c0
    ELSE Bind(start_action(c0, Head(dems), p), LAMBDA c1 :
           IF c1.exc # "none" THEN c1 ELSE start_each(c1, Tail(dems), p))

\* DEMIndexManager.get_indexes: the registered indexes, in order
get_indexes == [k \in 1..Len(IndexOrder) |-> DEMIndex(IndexOrder[k], NULL)]

\* DEMIndexManager.get_dem_index: with a version number taken from an exact
\* name a new DEMIndex of whatever base name; else the registered index of
\* that name, or None
get_dem_index(index_name, version_id) ==
    IF version_id # NULL THEN DEMIndex(index_name, version_id)
    ELSE IF index_name \in Indexes THEN DEMIndex(index_name, NULL)
    ELSE NULL

\* "if dem_index:" for what get_dem_index returns for the name
dem_index_found(index_name, version_id) ==
    version_id # NULL \/ index_name \in Indexes

_start_action_for_indexes(c, p, index_name, version_id) ==
    IF index_name = "all"
    THEN start_each(c, get_indexes, p)
    ELSE IF ~dem_index_found(index_name, version_id)
    THEN Raise(c, "DEMIndexNotFound")
    ELSE start_each(c, <<get_dem_index(index_name, version_id)>>, p)

(***************************************************************************)
(* The calls of the management commands, one action each.                  *)
(***************************************************************************)
Call(p, index_name, version_id) ==
    /\ nOps < MaxOps
    /\ \E c \in {_start_action_for_indexes(Ctx(DB, NewAction(p.kind)), p,
                                           index_name, version_id)} :
          /\ Len(c.db.iv) <= MaxVersions
          /\ index_tbl' = c.db.index
          /\ indexversion_tbl' = c.db.iv
          /\ indexaction_tbl' = c.db.ia
          /\ es_indices' = c.db.es
          /\ index_models' = c.db.cache
          /\ doc_type_index' = c.db.dt
          /\ es_docs' = c.db.docs
          /\ clock' = c.db.now
          /\ last' = [kind |-> p.kind, force |-> p.force,
                      es_only |-> p.es_only, older_mode |-> p.older_mode,
                      hard_delete |-> p.hard_delete, h |-> p.h,
                      es_resp |-> p.es_resp, index_name |-> index_name,
                      version_id |-> version_id, exc |-> c.exc,
                      pk |-> c.act.pk, process |-> THIS_PROCESS,
                      newer_mode |-> p.newer_mode,
                      resume_mode |-> p.resume_mode,
                      start_date |-> p.start_date]
    /\ pre' = Registry
    /\ nOps' = nOps + 1
    /\ UNCHANGED <<updVars, raceVars>>

\* the exact names a call is given: the name of a version row, or a name
\* with an id no row has
ExactNames ==
    {<<indexversion_tbl[v].index, v>> : v \in LiveRows(DB)}
        \cup {<<IndexOrder[1], Len(indexversion_tbl) + 1>>}

\* DEMIndexManager.create_index
create_index(index_name, force, es_only, h, es_resp) ==
    Call(Params(ACTION_CREATE_INDEX, force, es_only, FALSE, FALSE, "", h,
                es_resp),
         index_name, NULL)

\* DEMIndexManager.activate_index
activate_index(index_name, version_id) ==
    Call(Params(ACTION_ACTIVATE_INDEX, FALSE, FALSE, FALSE, FALSE, "", NULL,
                "ok"),
         index_name, version_id)

\* DEMIndexManager.drop_index
drop_index(index_name, version_id, force, just_prefix, es_only, older, hard) ==
    Call(Params(ACTION_DROP_INDEX, force, es_only, older, hard, just_prefix,
                NULL, "ok"),
         index_name, version_id)

\* DEMIndexManager.clear_index
clear_index(index_name, version_id, older_mode) ==
    Call(Params(ACTION_CLEAR_INDEX, FALSE, FALSE, older_mode, FALSE, "", NULL,
                "ok"),
         index_name, version_id)

\* DEMIndexManager.update_index, with workers = 0
update_index(index_name, version_id, newer_mode, resume_mode, start_date, h, es_resp) ==
    Call(UpdateParams(newer_mode, resume_mode, start_date, h, es_resp),
         index_name, version_id)

\* DEMIndexManager.test_post_teardown: every version of the test prefix is
\* dropped and its row removed
test_post_teardown ==
    drop_index("all", NULL, TRUE, environment_prefix, FALSE, FALSE, TRUE)

(***************************************************************************)
(* The es_dangerous_reset command (es_dangerous_reset.py) and what it      *)
(* calls.                                                                  *)
(***************************************************************************)
\* a call of the manager inside a command: a new action object, started for
\* the indexes the name stands for, on the database as it is
manager_call(db, p, index_name) ==
    _start_action_for_indexes(Ctx(db, NewAction(p.kind)), p, index_name, NULL)

\* es_drop --all --force, and with --es-only the physical indexes that
\* list_es_created_indexes still lists
es_drop_all(db, es_only) ==
    Bind(manager_call(db, Params(ACTION_DROP_INDEX, TRUE, es_only, FALSE,
                                 FALSE, "", NULL, "ok"), "all"),
         LAMBDA c :
           IF c.exc = "none" /\ es_only THEN [c EXCEPT !.db.es = {}] ELSE c)

\* Index.objects.all().delete(): the rows of IndexVersion and IndexAction
\* go with their Index (on_delete CASCADE)
Index_delete_all(db) ==
    [db EXCEPT !.index = [i \in DOMAIN @ |-> NULL],
               !.iv = [v \in DOMAIN @ |-> [@[v] EXCEPT !.row = FALSE]],
               !.ia = [a \in DOMAIN @ |-> [@[a] EXCEPT !.row = FALSE]]]

\* an initialization that creates a version for each Index without an active
\* one and activates none
RECURSIVE create_and_not_activate(_, _, _, _)
create_and_not_activate(c0, names, h, es_resp) ==
    IF names = <<>> \/ c0.exc # "none" THEN c0
    ELSE Bind(c0, LAMBDA c :
           IF get_active_index_version(c.db, Head(names)) # NULL
           THEN create_and_not_activate(c, Tail(names), h, es_resp)
           ELSE create_and_not_activate(
                  manager_call(c.db,
                               Params(ACTION_CREATE_INDEX, FALSE, FALSE,
                                      FALSE, FALSE, "", h, es_resp),
                               Head(names)),
                  Tail(names), h, es_resp))

\* DEMIndexManager.create_and_activate_version_for_each_index_if_none_is_active
\* with create_versions and activate_versions
RECURSIVE create_and_activate(_, _, _, _)
create_and_activate(c0, names, h, es_resp) ==
    IF names = <<>> \/ c0.exc # "none" THEN c0
    ELSE Bind(c0, LAMBDA c :
           IF get_active_index_version(c.db, Head(names)) # NULL
           THEN create_and_activate(c, Tail(names), h, es_resp)
           ELSE Bind(manager_call(c.db,
                                  Params(ACTION_CREATE_INDEX, FALSE, FALSE,
                                         FALSE, FALSE, "", h, es_resp),
                                  Head(names)),
                     LAMBDA c1 :
                       IF c1.exc # "none" THEN c1
                       ELSE create_and_activate(
                              manager_call(c1.db,
                                           Params(ACTION_ACTIVATE_INDEX, FALSE,
                                                  FALSE, FALSE, FALSE, "", NULL,
                                                  "ok"),
                                           Head(names)),
                              Tail(names), h, es_resp)))

\* DEMIndexManager.initialize(create_versions=True, activate_versions=True)
initialize_create_activate(c, h, es_resp) ==
    create_and_activate([c EXCEPT !.db = update_index_models(@)], IndexOrder,
                        h, es_resp)

\* Command.handle of es_dangerous_reset
dangerous_reset_handle(db, es_only, h, es_resp) ==
    Bind(IF es_only THEN Ctx(db, NewAction(ACTION_DROP_INDEX))
         ELSE es_drop_all(db, FALSE),
         LAMBDA c1 :
           IF c1.exc # "none" THEN c1
           ELSE Bind(es_drop_all(c1.db, TRUE), LAMBDA c2 :
                  IF c2.exc # "none" THEN c2
                  ELSE IF es_only
                  THEN manager_call(c2.db,
                                    Params(ACTION_CREATE_INDEX, FALSE, TRUE,
                                           FALSE, FALSE, "", NULL, "ok"),
                                    "all")
                  ELSE initialize_create_activate(
                         [c2 EXCEPT !.db = Index_delete_all(@)], h, es_resp)))

es_dangerous_reset(es_only, h, es_resp) ==
    /\ nOps < MaxOps
    /\ \E c \in {dangerous_reset_handle(DB, es_only, h, es_resp)} :
          /\ Len(c.db.iv) <= MaxVersions
          /\ index_tbl' = c.db.index
          /\ indexversion_tbl' = c.db.iv
          /\ indexaction_tbl' = c.db.ia
          /\ es_indices' = c.db.es
          /\ index_models' = c.db.cache
          /\ doc_type_index' = c.db.dt
          /\ es_docs' = c.db.docs
          /\ clock' = c.db.now
          /\ last' = [kind |-> "dangerous_reset", force |-> TRUE,
                      es_only |-> es_only, older_mode |-> FALSE,
                      hard_delete |-> FALSE, h |-> h, es_resp |-> es_resp,
                      index_name |-> "all", version_id |-> NULL,
                      exc |-> c.exc, pk |-> c.act.pk,
                      process |-> THIS_PROCESS,
               newer_mode |-> FALSE, resume_mode |-> FALSE,
               start_date |-> NULL]
    /\ pre' = Registry
    /\ nOps' = nOps + 1
    /\ UNCHANGED <<updVars, raceVars>>

\* an UpdateIndexAction as constructed (docs_affected = 0), not saved yet
NewUpdateAction ==
    [row |-> FALSE, status |-> STATUS_QUEUED, end |-> FALSE, docs_affected |-> 0,
     log |-> <<>>]

\* the update that is given ids, b and w
InitUpdateOf(ids, b, w) ==
    /\ qs_ids = ids
    /\ batch_size = b
    /\ workers = w
    /\ parent_row = NewUpdateAction
    /\ parent_obj = NewUpdateAction
    /\ chunks = <<>>
    /\ results = <<>>
    /\ lock = NULL
    /\ upd_pc = "idle"

InitRegistry ==
    /\ index_tbl = [i \in Indexes |-> NULL]
    /\ indexversion_tbl = <<>>
    /\ indexaction_tbl = <<>>
    /\ es_indices = {}
    /\ index_models = [i \in Indexes |-> NULL]
    /\ doc_type_index = [i \in Indexes |-> NULL]
    /\ es_docs = {}
    /\ clock = 0
    /\ last = [kind |-> "none", force |-> FALSE, es_only |-> FALSE,
               older_mode |-> FALSE,
               hard_delete |-> FALSE, h |-> NULL, es_resp |-> "ok",
               index_name |-> "", version_id |-> NULL,
               exc |-> "none", pk |-> NULL, process |-> THIS_PROCESS,
               newer_mode |-> FALSE, resume_mode |-> FALSE,
               start_date |-> NULL]
    /\ pre = [index |-> [i \in Indexes |-> NULL], iv |-> <<>>, es |-> {},
              cache |-> [i \in Indexes |-> NULL], docs |-> {}]
    /\ nOps = 0

\* no es_activate and no es_drop is running
InitRace ==
    /\ activate_proc = [pc |-> "idle", pk |-> NULL, index |-> "",
                        active |-> NULL, version |-> NULL]
    /\ drop_proc = [pc |-> "idle", pk |-> NULL, index |-> "",
                    active |-> NULL, version |-> NULL]

Init == InitRegistry /\ InitUpdateOf(<<>>, 1, 0) /\ InitRace

Next ==
    \/ \E i \in Indexes \cup {"all"}, force \in BOOLEAN, h \in Schemas,
          es_resp \in EsResponses :
          create_index(i, force, FALSE, h, es_resp)
    \/ \E i \in Indexes \cup {"all"} : activate_index(i, NULL)
    \/ \E n \in ExactNames : activate_index(n[1], n[2])
    \/ \E i \in Indexes, force \in BOOLEAN, older \in BOOLEAN, hard \in BOOLEAN :
          drop_index(i, NULL, force, "", FALSE, older, hard)
    \/ \E n \in ExactNames, force \in BOOLEAN, older \in BOOLEAN, hard \in BOOLEAN :
          drop_index(n[1], n[2], force, "", FALSE, older, hard)

Spec == Init /\ [][Next]_vars

\* A management command run in another process, against the same database
\* and Elasticsearch: DjangoElasticMigrationsConfig.ready of that process,
\* for the schema h of its build, then the call.  Its DEMIndexManager is
\* loaded by ready and discarded with the process, and so are its doc type
\* classes; index_models and doc_type_index of this process are not touched.
command_elsewhere(db, p, index_name, version_id, h) ==
    Bind(initialize_create_activate(
           Ctx([db EXCEPT !.dt = [i \in Indexes |-> NULL]],
               NewAction(ACTION_CREATE_INDEX)),
           h, "ok"),
         LAMBDA c0 :
           IF c0.exc # "none" THEN c0
           ELSE _start_action_for_indexes(Ctx(c0.db, NewAction(p.kind)), p,
                                          index_name, version_id))

CallElsewhere(p, index_name, version_id, h) ==
    /\ nOps < MaxOps
    /\ \E c \in {command_elsewhere(DB, p, index_name, version_id, h)} :
          /\ Len(c.db.iv) <= MaxVersions
          /\ index_tbl' = c.db.index
          /\ indexversion_tbl' = c.db.iv
          /\ indexaction_tbl' = c.db.ia
          /\ es_indices' = c.db.es
          /\ es_docs' = c.db.docs
          /\ clock' = c.db.now
          /\ last' = [kind |-> p.kind, force |-> p.force,
                      es_only |-> p.es_only, older_mode |-> p.older_mode,
                      hard_delete |-> p.hard_delete, h |-> p.h,
                      es_resp |-> p.es_resp, index_name |-> index_name,
                      version_id |-> version_id, exc |-> c.exc,
                      pk |-> c.act.pk, process |-> OTHER_PROCESS,
                      newer_mode |-> p.newer_mode,
                      resume_mode |-> p.resume_mode,
                      start_date |-> p.start_date]
    /\ pre' = Registry
    /\ nOps' = nOps + 1
    /\ UNCHANGED <<index_models, doc_type_index, updVars, raceVars>>

\* es_create and es_activate run in another process, and the calls of this
\* long-running process
NextProc ==
    \/ \E i \in Indexes, force \in BOOLEAN, h \in Schemas :
          CallElsewhere(Params(ACTION_CREATE_INDEX, force, FALSE, FALSE, FALSE,
                               "", h, "ok"), i, NULL, h)
    \/ \E i \in Indexes, h \in Schemas :
          CallElsewhere(Params(ACTION_ACTIVATE_INDEX, FALSE, FALSE, FALSE,
                               FALSE, "", NULL, "ok"), i, NULL, h)
    \/ \E i \in Indexes, force \in BOOLEAN, h \in Schemas :
          create_index(i, force, FALSE, h, "ok")
    \/ \E i \in Indexes : activate_index(i, NULL)

\* The calls as the management commands and the test hooks make them:
\* es_create, es_activate, es_drop with their flags (es_drop has no flag
\* for hard_delete), test_post_teardown and es_dangerous_reset.
NextCmd ==
    \/ \E i \in Indexes \cup {"all"}, force \in BOOLEAN, h \in Schemas :
          create_index(i, force, FALSE, h, "ok")
    \/ \E i \in Indexes \cup {"all"} :
          create_index(i, FALSE, TRUE, NULL, "ok")
    \/ \E i \in Indexes : activate_index(i, NULL)
    \/ \E i \in Indexes, force \in BOOLEAN, es_only \in BOOLEAN,
          older \in BOOLEAN :
          drop_index(i, NULL, force, "", es_only, older, FALSE)
    \/ \E n \in ExactNames, force \in BOOLEAN, es_only \in BOOLEAN,
          older \in BOOLEAN :
          drop_index(n[1], n[2], force, "", es_only, older, FALSE)
    \/ test_post_teardown
    \/ \E h \in Schemas, es_resp \in EsResponses :
          es_dangerous_reset(FALSE, h, es_resp)
    \/ es_dangerous_reset(TRUE, NULL, "ok")

SpecCmd == Init /\ [][NextCmd]_vars

\* the database before anything was created
EmptyDB ==
    [index |-> [i \in Indexes |-> NULL], iv |-> <<>>, ia |-> <<>>,
     es |-> {}, cache |-> [i \in Indexes |-> NULL],
     dt |-> [i \in Indexes |-> NULL], docs |-> {}, now |-> 0]

\* DjangoElasticMigrationsConfig.ready on an empty database: initialize
\* with create_versions and activate_versions, for the schema of the build
InitReady ==
    /\ \E h \in Schemas :
         \E c \in {initialize_create_activate(
                      Ctx(EmptyDB, NewAction(ACTION_CREATE_INDEX)), h, "ok")} :
            /\ index_tbl = c.db.index
            /\ indexversion_tbl = c.db.iv
            /\ indexaction_tbl = c.db.ia
            /\ es_indices = c.db.es
            /\ index_models = c.db.cache
            /\ doc_type_index = c.db.dt
            /\ es_docs = c.db.docs
            /\ clock = c.db.now
            /\ pre = [index |-> c.db.index, iv |-> c.db.iv, es |-> c.db.es,
                      cache |-> c.db.cache, docs |-> c.db.docs]
    /\ last = [kind |-> "none", force |-> FALSE, es_only |-> FALSE,
               older_mode |-> FALSE,
               hard_delete |-> FALSE, h |-> NULL, es_resp |-> "ok",
               index_name |-> "", version_id |-> NULL,
               exc |-> "none", pk |-> NULL, process |-> THIS_PROCESS,
               newer_mode |-> FALSE, resume_mode |-> FALSE,
               start_date |-> NULL]
    /\ nOps = 0
    /\ InitUpdateOf(<<>>, 1, 0)
    /\ InitRace

\* the commands in a process whose application has started
SpecReady == InitReady /\ [][NextCmd]_vars

\* a long-running process whose application has started, and commands run
\* in other processes
SpecProc == InitReady /\ [][NextProc]_vars

\* the start dates es_update is given: none, or a date between the two
\* documents
StartDates == {NULL, 1}

\* es_create, es_activate and es_update with its flags for the first Index,
\* by base name and by exact name
NextData ==
    \/ \E force \in BOOLEAN, h \in Schemas :
          create_index(IndexOrder[1], force, FALSE, h, "ok")
    \/ activate_index(IndexOrder[1], NULL)
    \/ \E resume_mode \in BOOLEAN, start_date \in StartDates, h \in Schemas :
          update_index(IndexOrder[1], NULL, FALSE, resume_mode, start_date, h,
                       "ok")
    \/ \E resume_mode \in BOOLEAN, h \in Schemas :
          update_index(IndexOrder[1], NULL, TRUE, resume_mode, NULL, h, "ok")
    \/ \E h \in Schemas :
          update_index(IndexOrder[1], NULL, FALSE, FALSE, NULL, h, "error")
    \/ \E n \in ExactNames, h \in Schemas :
          update_index(n[1], n[2], FALSE, TRUE, NULL, h, "ok")

SpecData == InitReady /\ [][NextData]_vars

\* es_update --newer and es_drop --older for the first Index, by base name
\* and by exact name, between creates and drops of single versions
NextFan ==
    \/ \E force \in BOOLEAN, h \in Schemas :
          create_index(IndexOrder[1], force, FALSE, h, "ok")
    \/ \E h \in Schemas, es_resp \in EsResponses :
          update_index(IndexOrder[1], NULL, TRUE, FALSE, NULL, h, es_resp)
    \/ \E n \in ExactNames, h \in Schemas :
          update_index(n[1], n[2], TRUE, FALSE, NULL, h, "ok")
    \/ \E n \in ExactNames, force \in BOOLEAN, older \in BOOLEAN :
          drop_index(n[1], n[2], force, "", FALSE, older, FALSE)
    \/ drop_index(IndexOrder[1], NULL, TRUE, "", FALSE, TRUE, FALSE)

SpecFan == InitReady /\ [][NextFan]_vars

\* es_create for the first Index with the answers of Elasticsearch to the
\* physical create, between activations and drops
NextCreate ==
    \/ \E force \in BOOLEAN, h \in Schemas,
          es_resp \in EsResponses \cup {ES_EXISTS} :
          create_index(IndexOrder[1], force, FALSE, h, es_resp)
    \/ activate_index(IndexOrder[1], NULL)
    \/ \E force \in BOOLEAN :
          drop_index(IndexOrder[1], NULL, force, "", FALSE, FALSE, FALSE)
    \/ \E n \in ExactNames :
          drop_index(n[1], n[2], FALSE, "", FALSE, FALSE, FALSE)

SpecCreate == InitReady /\ [][NextCreate]_vars

\* es_update --all and es_update of the first Index, with and without
\* --resume, and es_create --all
NextAll ==
    \/ \E resume_mode \in BOOLEAN, h \in Schemas, es_resp \in EsResponses :
          update_index("all", NULL, FALSE, resume_mode, NULL, h, es_resp)
    \/ \E resume_mode \in BOOLEAN, h \in Schemas :
          update_index(IndexOrder[1], NULL, FALSE, resume_mode, NULL, h, "ok")
    \/ \E force \in BOOLEAN, h \in Schemas :
          create_index("all", force, FALSE, h, "ok")

SpecAll == InitReady /\ [][NextAll]_vars

\* DEMDocType.batched_bulk_index called without an update action, for the
\* doc type of index i.  get_index_model takes the DEMIndex of the exact
\* name the doc type writes to: a base name without a version has no "-"
\* to split at (ValueError).  Without an active version of the cached Index
\* nothing is done; else a PartialUpdateIndexAction of that version is
\* saved and stands where the update action stands otherwise
direct_bulk_index(db, i, p) ==
    IF doc_type_index_name(db, i) = NULL
    THEN Raise(Ctx(db, NewAction(ACTION_PARTIAL_UPDATE_INDEX)), "ValueError")
    ELSE IF db.cache[i] = NULL
    THEN Ctx(db, NewAction(ACTION_PARTIAL_UPDATE_INDEX))
    ELSE batched_bulk_index(
           save(Ctx(db, [NewAction(ACTION_PARTIAL_UPDATE_INDEX) EXCEPT
                           !.index = i, !.index_version = db.cache[i]])),
           NULL, p)

CMD_BULK == "batched_bulk_index"

\* a call of batched_bulk_index of the doc type of index_name by the
\* application
batched_bulk_index_call(index_name, h, es_resp) ==
    /\ nOps < MaxOps
    /\ \E c \in {direct_bulk_index(DB, index_name,
                                    UpdateParams(FALSE, FALSE, NULL, h, es_resp))} :
          /\ index_tbl' = c.db.index
          /\ indexversion_tbl' = c.db.iv
          /\ indexaction_tbl' = c.db.ia
          /\ es_indices' = c.db.es
          /\ index_models' = c.db.cache
          /\ doc_type_index' = c.db.dt
          /\ es_docs' = c.db.docs
          /\ clock' = c.db.now
          /\ last' = [kind |-> CMD_BULK, force |-> FALSE, es_only |-> FALSE,
                      older_mode |-> FALSE, hard_delete |-> FALSE, h |-> h,
                      es_resp |-> es_resp, index_name |-> index_name,
                      version_id |-> NULL, exc |-> c.exc, pk |-> c.act.pk,
                      process |-> THIS_PROCESS, newer_mode |-> FALSE,
                      resume_mode |-> FALSE, start_date |-> NULL]
    /\ pre' = Registry
    /\ nOps' = nOps + 1
    /\ UNCHANGED <<updVars, raceVars>>

\* batched_bulk_index called by the application, between es_update, es_create
\* and es_activate of the same Index
NextBulk ==
    \/ \E h \in Schemas, es_resp \in EsResponses :
          batched_bulk_index_call(IndexOrder[1], h, es_resp)
    \/ \E h \in Schemas, es_resp \in EsResponses :
          update_index(IndexOrder[1], NULL, FALSE, FALSE, NULL, h, es_resp)
    \/ \E h \in Schemas : create_index(IndexOrder[1], TRUE, FALSE, h, "ok")
    \/ activate_index(IndexOrder[1], NULL)

SpecBulk == InitReady /\ [][NextBulk]_vars

\* the exact names of any Index with the id of any version row
CrossNames == {<<i, v>> : i \in Indexes, v \in LiveRows(DB)}

\* clear_index by base name and by exact name, with and without older
\* mode, and activate_index by exact name, between creates and updates of
\* the first Index
NextClear ==
    \/ \E older_mode \in BOOLEAN : clear_index(IndexOrder[1], NULL, older_mode)
    \/ \E n \in ExactNames, older_mode \in BOOLEAN :
          clear_index(n[1], n[2], older_mode)
    \/ \E n \in CrossNames : activate_index(n[1], n[2])
    \/ \E h \in Schemas : create_index(IndexOrder[1], TRUE, FALSE, h, "ok")
    \/ \E h \in Schemas :
          update_index(IndexOrder[1], NULL, FALSE, FALSE, NULL, h, "ok")

SpecClear == InitReady /\ [][NextClear]_vars

\* a base name no DEMIndex is registered under
UNREGISTERED == "ghost"

\* the commands given a name of the unregistered index, as a base name and
\* as an exact name with the id of a row or with an id no row has, between
\* creates and drops of the first registered Index
NextNames ==
    \/ \E force \in BOOLEAN, h \in Schemas :
          create_index(UNREGISTERED, force, FALSE, h, "ok")
    \/ activate_index(UNREGISTERED, NULL)
    \/ \E force \in BOOLEAN, older \in BOOLEAN :
          drop_index(UNREGISTERED, NULL, force, "", FALSE, older, FALSE)
    \/ \E h \in Schemas :
          update_index(UNREGISTERED, NULL, FALSE, FALSE, NULL, h, "ok")
    \/ \E v \in 1..(Len(indexversion_tbl) + 1) :
          activate_index(UNREGISTERED, v)
    \/ \E v \in 1..(Len(indexversion_tbl) + 1), force \in BOOLEAN :
          drop_index(UNREGISTERED, v, force, "", FALSE, FALSE, FALSE)
    \/ \E v \in 1..(Len(indexversion_tbl) + 1), h \in Schemas :
          update_index(UNREGISTERED, v, FALSE, FALSE, NULL, h, "ok")
    \/ \E force \in BOOLEAN, h \in Schemas :
          create_index(IndexOrder[1], force, FALSE, h, "ok")
    \/ \E force \in BOOLEAN :
          drop_index(IndexOrder[1], NULL, force, "", FALSE, FALSE, FALSE)

SpecNames == InitReady /\ [][NextNames]_vars

\* the commands which are to deactivate a version
CMD_DEACTIVATE == "es_deactivate"
CMD_ACTIVATE_DEACTIVATE == "es_activate --deactivate"

\* a command whose handle raises exc before it reaches an action: nothing
\* is saved
CommandRaises(cmd, index_name, version_id, exc) ==
    /\ nOps < MaxOps
    /\ last' = [kind |-> cmd, force |-> FALSE, es_only |-> FALSE,
                older_mode |-> FALSE, hard_delete |-> FALSE, h |-> NULL,
                es_resp |-> "ok", index_name |-> index_name,
                version_id |-> version_id, exc |-> exc, pk |-> NULL,
                process |-> THIS_PROCESS, newer_mode |-> FALSE,
                resume_mode |-> FALSE, start_date |-> NULL]
    /\ pre' = Registry
    /\ nOps' = nOps + 1
    /\ UNCHANGED <<index_tbl, indexversion_tbl, indexaction_tbl, es_indices,
                   doc_type_index, es_docs, clock, index_models, updVars, raceVars>>

\* es_deactivate: Command.handle reads the options and calls
\* DEMIndexManager.deactivate_index, an attribute the class does not have
es_deactivate(index_name, version_id) ==
    CommandRaises(CMD_DEACTIVATE, index_name, version_id, "AttributeError")

\* es_activate --deactivate: Command.handle unpacks the five values of
\* get_index_specifying_options into three names
es_activate_deactivate(index_name, version_id) ==
    CommandRaises(CMD_ACTIVATE_DEACTIVATE, index_name, version_id,
                  "ValueError")

\* creates and activations of the first Index, and the two commands that
\* are to deactivate, given the exact name of a version
NextAct ==
    \/ \E force \in BOOLEAN, h \in Schemas :
          create_index(IndexOrder[1], force, FALSE, h, "ok")
    \/ activate_index(IndexOrder[1], NULL)
    \/ \E n \in ExactNames : activate_index(n[1], n[2])
    \/ \E n \in ExactNames : es_deactivate(n[1], n[2])
    \/ \E n \in ExactNames : es_activate_deactivate(n[1], n[2])

SpecAct == InitReady /\ [][NextAct]_vars

\* DjangoElasticMigrationsConfig.ready of a process that starts on the
\* database and the Elasticsearch as they are: the doc type classes are
\* new, and DEMIndexManager.initialize runs with create_versions and
\* activate_versions for the schema h of the build
CMD_READY == "ready"

ready(h, es_resp) ==
    /\ nOps < MaxOps
    /\ \E c \in {initialize_create_activate(
                     Ctx([DB EXCEPT !.dt = [i \in Indexes |-> NULL]],
                         NewAction(ACTION_CREATE_INDEX)), h, es_resp)} :
          /\ Len(c.db.iv) <= MaxVersions
          /\ index_tbl' = c.db.index
          /\ indexversion_tbl' = c.db.iv
          /\ indexaction_tbl' = c.db.ia
          /\ es_indices' = c.db.es
          /\ index_models' = c.db.cache
          /\ doc_type_index' = c.db.dt
          /\ es_docs' = c.db.docs
          /\ clock' = c.db.now
          /\ last' = [kind |-> CMD_READY, force |-> FALSE, es_only |-> FALSE,
                      older_mode |-> FALSE, hard_delete |-> FALSE, h |-> h,
                      es_resp |-> es_resp, index_name |-> "all",
                      version_id |-> NULL, exc |-> c.exc, pk |-> c.act.pk,
                      process |-> THIS_PROCESS, newer_mode |-> FALSE,
                      resume_mode |-> FALSE, start_date |-> NULL]
    /\ pre' = Registry
    /\ nOps' = nOps + 1
    /\ UNCHANGED <<updVars, raceVars>>

\* starts of the process between creates, activations and drops
NextInit ==
    \/ \E h \in Schemas, es_resp \in EsResponses : ready(h, es_resp)
    \/ \E force \in BOOLEAN, h \in Schemas :
          create_index(IndexOrder[1], force, FALSE, h, "ok")
    \/ \E n \in ExactNames : activate_index(n[1], n[2])
    \/ \E i \in Indexes, force \in BOOLEAN, es_only \in BOOLEAN :
          drop_index(i, NULL, force, "", es_only, FALSE, FALSE)
    \/ \E n \in ExactNames, force \in BOOLEAN, es_only \in BOOLEAN :
          drop_index(n[1], n[2], force, "", es_only, FALSE, FALSE)

SpecInit == Init /\ [][NextInit]_vars

(***************************************************************************)
(* UpdateIndexAction: DEMDocType.generate_batches and batched_bulk_index   *)
(* (indexes.py), PartialUpdateIndexAction.perform_action and               *)
(* IndexAction.add_to_parent_docs_affected (models.py).  The chunks of one *)
(* update run in the calling process or in worker processes, whose steps   *)
(* interleave.                                                             *)
(***************************************************************************)
end_index_unclipped(start_index, b, total_items) == start_index + b

\* end_index of the batch that starts at start_index
end_index(start_index, b, total_items) == Min(start_index + b, total_items)

\* the PartialUpdateIndexAction of the batch that starts at start_index:
\* its task_kwargs, its row, where its process is (pc) and the locals of
\* its perform_action (retries, waits slept, success) and of its
\* add_to_parent_docs_affected (try_num, read), which end with the call
NewBatch(ids, b, total_items, start_index) ==
    [start_index |-> start_index,
     end_index |-> end_index(start_index, b, total_items),
     pks |-> Slice(ids, start_index, end_index(start_index, b, total_items)),
     batch_num |-> (start_index \div b) + 1,
     max_batch_num |-> (total_items \div b) + 1,
     status |-> STATUS_QUEUED, end |-> FALSE, docs_affected |-> 0,
     pc |-> "queued", retries |-> 0, waits |-> <<>>, success |-> 0,
     try_num |-> 1, read |-> 0]

generate_batches(ids, b, total_items) ==
    Bind(range(0, total_items, b), LAMBDA starts :
      [k \in 1..Len(starts) |-> NewBatch(ids, b, total_items, starts[k])])

\* 2 ** n
RECURSIVE Pow2(_)
Pow2(n) == IF n = 0 THEN 1 ELSE 2 * Pow2(n - 1)

sum_results_last(rs) == IF rs = <<>> THEN 0 ELSE rs[Len(rs)].success

\* num_successes of batched_bulk_index: the results that are None are skipped
RECURSIVE sum_results(_)
sum_results(rs) ==
    IF rs = <<>> THEN 0
    ELSE (IF Head(rs).ok THEN Head(rs).success ELSE 0) + sum_results(Tail(rs))

\* a wrapper that lets the exception of a job end its process
catch_exceptions_off == FALSE

\* threadwrapper(some_function, catch_exceptions=True), as map calls it: the
\* exception of a job is logged, None is its result and the loop goes on
catch_exceptions == TRUE

\* DjangoMultiProcess.map: the jobs of the worker worker_idx, the chunks at
\* the positions idx of the list with idx % num_workers == worker_idx
jobs(worker_idx) ==
    {i \in 1..Len(chunks) : (i - 1) % workers = worker_idx}

\* the jobs of the process that runs chunk i: every chunk when workers = 0,
\* the chunks DjangoMultiProcess.map gives the same worker otherwise
SameProcess(i, j) ==
    workers = 0 \/ \E worker_idx \in 0..(workers - 1) :
                      i \in jobs(worker_idx) /\ j \in jobs(worker_idx)

\* the process of chunk i ended before it came to chunk i: an earlier job of
\* the worker raised and the wrapper did not catch it
Skipped(i) ==
    /\ workers > 0
    /\ ~catch_exceptions
    /\ \E j \in 1..(i - 1) : SameProcess(i, j) /\ chunks[j].pc = "aborted"

\* start_action of the UpdateIndexAction up to the list of its children:
\* to_in_progress, generate_batches, refresh_from_db
UpdateStart ==
    /\ upd_pc = "idle"
    /\ upd_pc' = "running"
    /\ parent_obj' = [parent_obj EXCEPT !.row = TRUE, !.status = STATUS_IN_PROGRESS]
    /\ parent_row' = parent_obj'
    /\ chunks' = generate_batches(qs_ids, batch_size, Len(qs_ids))
    /\ UNCHANGED <<qs_ids, batch_size, workers, results, lock, regVars, raceVars>>

\* do_partial_update(i) begins in its process: start_action, to_in_progress
ChunkBegin(i) ==
    /\ upd_pc = "running"
    /\ chunks[i].pc = "queued"
    /\ \A j \in 1..(i - 1) :
          SameProcess(i, j) =>
             /\ chunks[j].pc \in {"complete", "aborted"}
             /\ (workers = 0 \/ ~catch_exceptions)
                   => chunks[j].pc = "complete"
    /\ chunks' = [chunks EXCEPT ![i].pc = "bulk",
                                ![i].status = STATUS_IN_PROGRESS]
    /\ UNCHANGED <<qs_ids, batch_size, workers, parent_row, parent_obj,
                   results, lock, upd_pc, regVars, raceVars>>

\* bulk_index returns: the loop is left with the success count
BulkOk(i) ==
    /\ chunks[i].pc = "bulk"
    /\ chunks' = [chunks EXCEPT ![i].pc = "add",
                                ![i].success = Len(chunks[i].pks),
                                ![i].docs_affected = Len(chunks[i].pks)]
    /\ UNCHANGED <<qs_ids, batch_size, workers, parent_row, parent_obj,
                   results, lock, upd_pc, regVars, raceVars>>

retries_exhausted_late(retries) == retries > MAX_RETRIES

\* if retries >= max_retries: raise
retries_exhausted(retries) == retries >= MAX_RETRIES

\* bulk_index raises: retries grows; at max_retries the exception leaves
\* perform_action and start_action aborts the chunk (in a worker the
\* threadwrapper catches it and queues None); otherwise sleep(2 ** retries)
BulkFail(i) ==
    /\ chunks[i].pc = "bulk"
    /\ IF retries_exhausted(chunks[i].retries + 1)
       THEN /\ chunks' = [chunks EXCEPT ![i].retries = @ + 1,
                                        ![i].pc = "aborted",
                                        ![i].status = STATUS_ABORTED,
                                        ![i].end = TRUE]
            /\ results' = IF workers = 0 \/ ~catch_exceptions THEN results
                          ELSE Append(results, [id |-> i, ok |-> FALSE, success |-> 0])
       ELSE /\ chunks' = [chunks EXCEPT ![i].retries = @ + 1,
                                        ![i].waits = Append(@, Pow2(chunks[i].retries + 1))]
            /\ UNCHANGED results
    /\ UNCHANGED <<qs_ids, batch_size, workers, parent_row, parent_obj,
                   lock, upd_pc, regVars, raceVars>>

\* the chunk's perform_action returns: to_complete, and the result
\* (success, failed) goes to the caller or to the queue of the pool
ChunkReturned(ch, i) ==
    /\ chunks' = [chunks EXCEPT ![i] = [ch EXCEPT !.pc = "complete",
                                                  !.status = STATUS_COMPLETE,
                                                  !.end = TRUE,
                                                  !.retries = 0,
                                                  !.waits = <<>>,
                                                  !.try_num = 1,
                                                  !.read = 0]]
    /\ results' = Append(results, [id |-> i, ok |-> TRUE, success |-> ch.success])

\* add_to_parent_docs_affected, transaction.atomic with select_for_update:
\* the parent row is locked and read
AddBegin(i) ==
    /\ chunks[i].pc = "add"
    /\ lock = NULL
    /\ lock' = i
    /\ chunks' = [chunks EXCEPT ![i].pc = "txn",
                                ![i].read = parent_row.docs_affected]
    /\ UNCHANGED <<qs_ids, batch_size, workers, parent_row, parent_obj,
                   results, upd_pc, regVars, raceVars>>

\* parent.docs_affected += num_docs; parent.save(); the transaction commits
\* and add_to_parent_docs_affected returns
AddCommit(i) ==
    /\ chunks[i].pc = "txn"
    /\ lock = i
    /\ lock' = NULL
    /\ parent_row' = [parent_row EXCEPT
                        !.docs_affected = chunks[i].read + chunks[i].success]
    /\ ChunkReturned(chunks[i], i)
    /\ UNCHANGED <<qs_ids, batch_size, workers, parent_obj, upd_pc, regVars, raceVars>>

\* the row is held by another process and the database answers "database
\* is locked": try_num grows, and at max_retries the loop is left with a
\* warning and add_to_parent_docs_affected returns
AddLocked(i) ==
    /\ chunks[i].pc = "add"
    /\ lock \notin {NULL, i}
    /\ IF chunks[i].try_num + 1 >= max_retries
       THEN ChunkReturned([chunks[i] EXCEPT !.try_num = @ + 1], i)
       ELSE /\ chunks' = [chunks EXCEPT ![i].try_num = @ + 1]
            /\ UNCHANGED results
    /\ UNCHANGED <<qs_ids, batch_size, workers, parent_row, parent_obj,
                   lock, upd_pc, regVars, raceVars>>

\* the IndexAction rows of the update: the UpdateIndexAction under id 1 and
\* chunk k under id k + 1
ChunkRows ==
    [a \in 1..(Len(chunks) + 1) |->
        [action |-> IF a = 1 THEN ACTION_UPDATE_INDEX
                    ELSE ACTION_PARTIAL_UPDATE_INDEX,
         index |-> IndexOrder[1], last_modified |-> 0, index_version |-> NULL,
         parent |-> IF a = 1 THEN NULL ELSE 1,
         status |-> IF a = 1 THEN parent_row.status ELSE chunks[a - 1].status,
         end |-> IF a = 1 THEN parent_row.end ELSE chunks[a - 1].end,
         docs_affected |-> IF a = 1 THEN parent_row.docs_affected
                           ELSE chunks[a - 1].docs_affected,
         log |-> <<>>,
         pks |-> IF a = 1 THEN <<>> ELSE chunks[a - 1].pks,
         hist |-> <<>>, ends |-> <<>>, row |-> TRUE]]

\* what check_child_statuses of the UpdateIndexAction adds to its log
ChildReport ==
    check_child_statuses(
        Ctx([EmptyDB EXCEPT !.ia = ChunkRows],
            [NewAction(ACTION_UPDATE_INDEX) EXCEPT
               !.pk = 1, !.status = STATUS_IN_PROGRESS])).act.log

\* batched_bulk_index returns the sums of the results; perform_action does
\* refresh_from_db, docs_affected = num_success, check_child_statuses;
\* start_action does to_complete
UpdateFinish ==
    /\ upd_pc = "running"
    /\ \A i \in 1..Len(chunks) :
          /\ chunks[i].pc \in {"complete", "aborted"} \/ Skipped(i)
          /\ workers = 0 => chunks[i].pc = "complete"
    /\ upd_pc' = "done"
    /\ parent_obj' = [parent_row EXCEPT !.docs_affected = sum_results(results),
                                        !.status = STATUS_COMPLETE,
                                        !.end = TRUE,
                                        !.log = ChildReport]
    /\ parent_row' = parent_obj'
    /\ UNCHANGED <<qs_ids, batch_size, workers, chunks, results, lock, regVars, raceVars>>

\* workers = 0: the exception of an aborted chunk leaves the loop over the
\* chunks, batched_bulk_index and perform_action; start_action of the update
\* does add_log and to_aborted, which save the object as it is in memory
UpdateRaise ==
    /\ upd_pc = "running"
    /\ workers = 0
    /\ \E i \in 1..Len(chunks) : chunks[i].pc = "aborted"
    /\ upd_pc' = "raised"
    /\ parent_obj' = [parent_obj EXCEPT !.status = STATUS_ABORTED, !.end = TRUE]
    /\ parent_row' = parent_obj'
    /\ UNCHANGED <<qs_ids, batch_size, workers, chunks, results, lock, regVars, raceVars>>

\* the data sources: identifiers in increasing order
SourceIds == {SortedSeq(S) : S \in SUBSET (1..MaxN)}

InitUpdate ==
    /\ InitRegistry
    /\ InitRace
    /\ \E ids \in SourceIds, b \in 1..MaxB, w \in 0..MaxWorkers :
          InitUpdateOf(ids, b, w)

NextUpdate ==
    \/ UpdateStart
    \/ \E i \in 1..Len(chunks) : ChunkBegin(i)
    \/ \E i \in 1..Len(chunks) : BulkOk(i)
    \/ \E i \in 1..Len(chunks) : BulkFail(i)
    \/ \E i \in 1..Len(chunks) : AddBegin(i)
    \/ \E i \in 1..Len(chunks) : AddCommit(i)
    \/ \E i \in 1..Len(chunks) : AddLocked(i)
    \/ UpdateFinish
    \/ UpdateRaise

SpecUpdate == InitUpdate /\ [][NextUpdate]_vars

\* every step of the update that can be taken is taken in the end: the
\* processes run until they return
SpecUpdateFair == SpecUpdate /\ WF_vars(NextUpdate)

(***************************************************************************)
(* activate_index(name) and drop_index(name-id, exact_mode, force) of the  *)
(* latest version, called at the same time in two processes that have      *)
(* started.  No transaction spans a perform_action: each query and each    *)
(* save() is a step of its own.  The DEMIndexManager of either process is  *)
(* its own, so index_models of this process is not touched.                *)
(***************************************************************************)
\* neither of the two is under way
Quiet ==
    /\ activate_proc.pc \in {"idle", "done", "raised"}
    /\ drop_proc.pc \in {"idle", "done"}

\* what a step of one of the two leaves in the database
RaceWrite(db) ==
    /\ index_tbl' = db.index
    /\ indexversion_tbl' = db.iv
    /\ indexaction_tbl' = db.ia
    /\ es_indices' = db.es
    /\ clock' = db.now
    /\ UNCHANGED <<index_models, doc_type_index, es_docs, last, pre, nOps,
                   updVars>>

\* the two commands are given: the drop names the version that is the latest
\* of the index now
RaceStart(i) ==
    /\ Quiet
    /\ nOps < MaxOps
    /\ get_latest_version(DB, i) # NULL
    /\ activate_proc' = [pc |-> "start", pk |-> NULL, index |-> i,
                         active |-> NULL, version |-> NULL]
    /\ drop_proc' = [pc |-> "start", pk |-> NULL, index |-> i,
                     active |-> NULL,
                     version |-> get_latest_version(DB, i)]
    /\ nOps' = nOps + 1
    /\ UNCHANGED <<index_tbl, indexversion_tbl, indexaction_tbl, es_indices,
                   doc_type_index, es_docs, clock, index_models, last, pre,
                   updVars>>

\* IndexAction.start_action of the activate: get_or_create loads the Index
\* row, with the active_version_id it has now, into self.index
Activate_begin ==
    /\ activate_proc.pc = "start"
    /\ \E c \in {start_action_begin(
                    Ctx(DB, NewAction(ACTION_ACTIVATE_INDEX)),
                    DEMIndex(activate_proc.index, NULL))} :
          /\ RaceWrite(c.db)
          /\ activate_proc' = [activate_proc EXCEPT
                                 !.pc = "latest", !.pk = c.act.pk,
                                 !.active = c.db.index[activate_proc.index]]
    /\ UNCHANGED drop_proc

\* self.index.get_latest_version() queries the version rows; the active
\* version compared with it is the one of the loaded Index object
Activate_latest ==
    /\ activate_proc.pc = "latest"
    /\ \E latest_version \in {get_latest_version(DB, activate_proc.index)},
          c \in {Ctx(DB, action_of_row(DB, activate_proc.pk))} :
          IF latest_version = NULL
          THEN /\ RaceWrite(start_action_end(
                              Raise(c, "NoCreatedIndexVersion")).db)
               /\ activate_proc' = [activate_proc EXCEPT !.pc = "raised"]
          ELSE IF activate_proc.active = latest_version
          THEN /\ RaceWrite(start_action_end(
                              add_log(c, <<"already active", latest_version,
                                           "no action">>)).db)
               /\ activate_proc' = [activate_proc EXCEPT !.pc = "done"]
          ELSE /\ RaceWrite(DB)
               /\ activate_proc' = [activate_proc EXCEPT
                                      !.pc = "save",
                                      !.version = latest_version]
    /\ UNCHANGED drop_proc

\* self.index.active_version = latest_version; self.index.save(); the log
\* entry, and to_complete
Activate_save ==
    /\ activate_proc.pc = "save"
    /\ \E c \in {Ctx([DB EXCEPT !.index[activate_proc.index] =
                                    activate_proc.version],
                     action_of_row(DB, activate_proc.pk))} :
          RaceWrite(start_action_end(
                      add_log(c, <<"activating", activate_proc.version,
                                   "latest">>)).db)
    /\ activate_proc' = [activate_proc EXCEPT !.pc = "done"]
    /\ UNCHANGED drop_proc

\* IndexAction.start_action of the drop
Drop_begin ==
    /\ drop_proc.pc = "start"
    /\ \E c \in {start_action_begin(
                    Ctx(DB, NewAction(ACTION_DROP_INDEX)),
                    DEMIndex(drop_proc.index, drop_proc.version))} :
          /\ RaceWrite(c.db)
          /\ drop_proc' = [drop_proc EXCEPT !.pc = "read", !.pk = c.act.pk]
    /\ UNCHANGED activate_proc

\* get_version_model, and is_active of the version: its Index row is loaded
\* and kept on the version object; with force an active version is dropped
\* too
Drop_read ==
    /\ drop_proc.pc = "read"
    /\ \E c \in {Ctx(DB, [action_of_row(DB, drop_proc.pk) EXCEPT
                            !.index_version = drop_proc.version])} :
          RaceWrite(add_log(c, <<"dropping", drop_proc.version, "">>).db)
    /\ drop_proc' = [drop_proc EXCEPT
                       !.pc = "es",
                       !.active = index_tbl[
                           indexversion_tbl[drop_proc.version].index]]
    /\ UNCHANGED activate_proc

\* DEMIndex.delete: the physical index is deleted
Drop_es ==
    /\ drop_proc.pc = "es"
    /\ RaceWrite(delete_es_created_index(DB, drop_proc.version))
    /\ drop_proc' = [drop_proc EXCEPT
                       !.pc = IF drop_proc.active = drop_proc.version
                              THEN "deactivate" ELSE "mark"]
    /\ UNCHANGED activate_proc

\* IndexVersion.delete, self.is_active of the loaded Index object:
\* parent_index.active_version = None; parent_index.save()
Drop_deactivate ==
    /\ drop_proc.pc = "deactivate"
    /\ RaceWrite([DB EXCEPT !.index[drop_proc.index] = NULL])
    /\ drop_proc' = [drop_proc EXCEPT !.pc = "mark"]
    /\ UNCHANGED activate_proc

\* IndexVersion.delete: self.deleted_time = now; self.save(); to_complete
Drop_mark ==
    /\ drop_proc.pc = "mark"
    /\ \E c \in {Ctx([DB EXCEPT !.iv[drop_proc.version].deleted_time = TRUE],
                     action_of_row(DB, drop_proc.pk))} :
          RaceWrite(start_action_end(c).db)
    /\ drop_proc' = [drop_proc EXCEPT !.pc = "done"]
    /\ UNCHANGED activate_proc

\* versions are created and activated while neither of the two runs, and
\* the two run step by step in any order
NextRace ==
    \/ Quiet /\ \E i \in Indexes, h \in Schemas :
                   create_index(i, TRUE, FALSE, h, "ok")
    \/ Quiet /\ \E i \in Indexes : activate_index(i, NULL)
    \/ \E i \in Indexes : RaceStart(i)
    \/ Activate_begin
    \/ Activate_latest
    \/ Activate_save
    \/ Drop_begin
    \/ Drop_read
    \/ Drop_es
    \/ Drop_deactivate
    \/ Drop_mark

SpecRace == InitReady /\ [][NextRace]_vars

(***************************************************************************)
(* Properties of the version registry and of the action engine (Spec)      *)
(***************************************************************************)
\* the version rows that exist and are not soft-deleted
Available == {v \in LiveRows(DB) : ~indexversion_tbl[v].deleted_time}

\* C1: every Index's active_version is null, or is a version row that
\* exists, is not soft-deleted and belongs to that Index.
C1_ActiveVersionAvailable ==
    \A i \in DOMAIN index_tbl :
        index_tbl[i] # NULL =>
            /\ index_tbl[i] \in Available
            /\ indexversion_tbl[index_tbl[i]].index = i

\* C2: a drop of an explicitly named version that is the active version of
\* its Index, without force, raises CannotDropActiveVersionWithoutForceArg
\* and changes no version row, no active_version and no physical index.
C2_DropActiveWithoutForce ==
    [][\A v \in {last'.version_id} :
          (/\ last'.kind = ACTION_DROP_INDEX
           /\ ~last'.older_mode
           /\ ~last'.force
           /\ v \in LiveRows(DB)
           /\ index_tbl[indexversion_tbl[v].index] = v)
          => /\ last'.exc = "CannotDropActiveVersionWithoutForceArg"
             /\ indexversion_tbl' = indexversion_tbl
             /\ index_tbl' = index_tbl
             /\ es_indices' = es_indices]_vars

\* a refused drop: the named version is still active, available and in ES
C2_Witness ==
    /\ last.kind = ACTION_DROP_INDEX
    /\ last.exc = "CannotDropActiveVersionWithoutForceArg"
    /\ last.version_id \in Available
    /\ index_tbl[last.index_name] = last.version_id
    /\ last.version_id \in es_indices

\* the place of a status in the order queued, in_progress, terminal
StatusRank(st) ==
    CASE st = STATUS_QUEUED -> 1
      [] st = STATUS_IN_PROGRESS -> 2
      [] OTHER -> 3

\* C3: the status values an action row has held go from queued to
\* in_progress to one of complete and aborted, never back: no row leaves
\* complete or aborted and none returns to queued.
C3_StatusMonotonic ==
    \A a \in DOMAIN indexaction_tbl :
        \A k \in 1..(Len(indexaction_tbl[a].hist) - 1) :
            StatusRank(indexaction_tbl[a].hist[k])
                < StatusRank(indexaction_tbl[a].hist[k + 1])

\* C4: after start_action the action's row has ended_at set and is
\* complete when perform_action returned; when it raised, the row is
\* aborted, the exception is the last entry of its log and the caller
\* receives that exception.
C4_StartActionOutcome ==
    last.pk # NULL =>
        LET r == indexaction_tbl[last.pk]
        IN /\ r.row
           /\ r.end
           /\ IF last.exc = "none" THEN r.status = STATUS_COMPLETE
              ELSE /\ r.status = STATUS_ABORTED
                   /\ r.log # <<>>
                   /\ r.log[Len(r.log)] = <<"exception", 0, last.exc>>

\* a start_action whose perform_action raised
C4_Witness ==
    /\ last.pk # NULL
    /\ last.exc = "IndexVersionRequired"
    /\ indexaction_tbl[last.pk].status = STATUS_ABORTED

\* C5: a create for one Index whose latest version has the schema given:
\* without force no version row is allocated and no version row or
\* active_version changes; with force exactly one version row of that
\* Index is allocated, and it is available when the call succeeds.
C5_CreateUnchanged ==
    [][\A i \in {last'.index_name}, n \in {Len(indexversion_tbl)} :
       \A lv \in {IF i \in Indexes THEN get_latest_version(DB, i) ELSE NULL} :
          (/\ last'.kind = ACTION_CREATE_INDEX
           /\ i \in Indexes
           /\ lv # NULL
           /\ indexversion_tbl[lv].json_md5 = last'.h)
          => IF last'.force
             THEN /\ Len(indexversion_tbl') = n + 1
                  /\ indexversion_tbl'[n + 1].index = i
                  /\ indexversion_tbl'[n + 1].json_md5 = last'.h
                  /\ \A v \in 1..n : indexversion_tbl'[v] = indexversion_tbl[v]
                  /\ last'.exc = "none" => (n + 1) \in Available'
                  /\ index_tbl' = index_tbl
             ELSE /\ indexversion_tbl' = indexversion_tbl
                  /\ index_tbl' = index_tbl]_vars

\* two creates in a row of one Index with one schema, the second without
\* force: one version row
C5_Witness ==
    /\ nOps = 2
    /\ last.kind = ACTION_CREATE_INDEX
    /\ ~last.force
    /\ last.index_name \in Indexes
    /\ Len(indexversion_tbl) = 1
    /\ indexversion_tbl[1].index = last.index_name
    /\ indexversion_tbl[1].json_md5 = last.h

\* a create with force after a create with the same schema: two version rows
C5_WitnessForce ==
    /\ nOps = 2
    /\ last.kind = ACTION_CREATE_INDEX
    /\ last.force
    /\ last.exc = "none"
    /\ Len(indexversion_tbl) = 2
    /\ indexversion_tbl[1].index = last.index_name
    /\ indexversion_tbl[2].index = last.index_name
    /\ indexversion_tbl[1].json_md5 = indexversion_tbl[2].json_md5

(***************************************************************************)
(* Properties of an update and its chunks (SpecUpdate)                     *)
(***************************************************************************)
\* C6: generate_batches makes ceil(N / B) chunks; the k-th starts at
\* (k - 1) * B and ends before min(k * B, N); its identifiers are those
\* positions of the source, so every source identifier is in one chunk,
\* once; no identifier gives no chunk.
C6_Batches ==
    upd_pc # "idle" =>
        LET N == Len(qs_ids)
            B == batch_size
        IN /\ Len(chunks) = (N + B - 1) \div B
           /\ \A k \in 1..Len(chunks) :
                 /\ chunks[k].start_index = (k - 1) * B
                 /\ chunks[k].end_index = (IF k * B < N THEN k * B ELSE N)
                 /\ chunks[k].pks =
                       [m \in 1..(chunks[k].end_index - chunks[k].start_index) |->
                           qs_ids[chunks[k].start_index + m]]
           /\ \A j \in 1..N :
                 Cardinality({km \in (1..Len(chunks)) \X (1..B) :
                                 /\ km[2] <= Len(chunks[km[1]].pks)
                                 /\ chunks[km[1]].pks[km[2]] = qs_ids[j]}) = 1
           /\ N = 0 => chunks = <<>>

\* three identifiers in batches of two: a full chunk and a partial one
C6_Witness ==
    /\ upd_pc # "idle"
    /\ Len(qs_ids) = 3
    /\ batch_size = 2
    /\ Len(chunks) = 2
    /\ Len(chunks[2].pks) = 1

RECURSIVE SumDocsAffected(_)
SumDocsAffected(chs) ==
    IF chs = <<>> THEN 0 ELSE Head(chs).docs_affected + SumDocsAffected(Tail(chs))

\* the success counts of the chunks whose bulk write returned
RECURSIVE SumSuccess(_)
SumSuccess(chs) ==
    IF chs = <<>> THEN 0 ELSE Head(chs).success + SumSuccess(Tail(chs))

\* the num_docs of the add_to_parent_docs_affected calls that have returned
RECURSIVE SumReturned(_)
SumReturned(chs) ==
    IF chs = <<>> THEN 0
    ELSE (IF Head(chs).pc = "complete" THEN Head(chs).success ELSE 0)
            + SumReturned(Tail(chs))

AllComplete == \A i \in 1..Len(chunks) : chunks[i].status = STATUS_COMPLETE

\* C7: when the update has ended and every chunk is complete, the stored
\* docs_affected of the update is the sum of the docs_affected of its
\* chunks, with the chunks in the caller or in any number of workers and
\* in any order of completion.
C7_ParentSum ==
    (upd_pc = "done" /\ AllComplete) =>
        parent_row.docs_affected = SumDocsAffected(chunks)

\* three chunks in two workers, the second chunk the first to complete
C7_Witness ==
    /\ upd_pc = "done"
    /\ AllComplete
    /\ workers = 2
    /\ Len(chunks) = 3
    /\ results[1].id = 2

\* C8: while the chunks run, whenever no add_to_parent_docs_affected call
\* is in progress, the stored docs_affected of the update is the sum of
\* the num_docs of the calls that have returned.
C8_NoLostIncrement ==
    (/\ upd_pc = "running"
     /\ \A i \in 1..Len(chunks) : chunks[i].pc \notin {"add", "txn"})
        => parent_row.docs_affected = SumReturned(chunks)

\* C9: when the update has returned or raised and a chunk was aborted after
\* other chunks wrote, the stored docs_affected of the update is the sum of
\* the success counts of the chunks whose write was applied.
C9_PartialFailure ==
    (/\ upd_pc \in {"done", "raised"}
     /\ \E i \in 1..Len(chunks) : chunks[i].status = STATUS_ABORTED
     /\ \E i \in 1..Len(chunks) : chunks[i].success > 0)
        => parent_row.docs_affected = SumSuccess(chunks)

\* the retry loop of a chunk: at most MAX_RETRIES failed writes; after the
\* k-th failure that is not the last allowed a wait of 2^k; aborted exactly
\* when MAX_RETRIES writes failed; past the loop only by a write that
\* succeeded before that
RetryBudget(ch) ==
    /\ ch.retries <= MAX_RETRIES
    /\ Len(ch.waits) = (IF ch.retries = MAX_RETRIES THEN MAX_RETRIES - 1
                        ELSE ch.retries)
    /\ \A k \in 1..Len(ch.waits) :
          ch.waits[k] = (IF k = 1 THEN 2 ELSE 2 * ch.waits[k - 1])
    /\ (ch.status = STATUS_ABORTED) <=> (ch.retries = MAX_RETRIES)
    /\ (ch.status = STATUS_IN_PROGRESS) <=> (ch.pc \in {"bulk", "add", "txn"})
    /\ (ch.pc \in {"add", "txn"} \/ ch.status = STATUS_COMPLETE) =>
          /\ ch.retries < MAX_RETRIES
          /\ ch.success = Len(ch.pks)
          /\ ch.docs_affected = ch.success

\* no chunk is between its start and its end; a chunk that is, is
\* in_progress, and one that is past it is complete or aborted
NoneRunning ==
    \A i \in 1..Len(chunks) : chunks[i].status # STATUS_IN_PROGRESS

\* C10: every chunk keeps to the retry budget; a chunk whose write has
\* succeeded is not aborted afterwards; and the chunks that have begun
\* end, complete or aborted: time and again none is in progress.
C10_Retry ==
    /\ [](\A i \in 1..Len(chunks) : RetryBudget(chunks[i]))
    /\ [][\A i \in 1..Len(chunks) :
             chunks[i].pc \in {"add", "txn"} =>
                chunks'[i].status \in {STATUS_IN_PROGRESS, STATUS_COMPLETE}]_vars
    /\ []<>NoneRunning

\* one chunk past the loop on its last allowed write, another aborted
C10_Witness ==
    \E i, j \in 1..Len(chunks) :
        /\ chunks[i].pc = "add"
        /\ chunks[i].retries = MAX_RETRIES - 1
        /\ chunks[i].waits = <<2, 4, 8, 16>>
        /\ chunks[j].status = STATUS_ABORTED

(***************************************************************************)
(* Properties of the calls of the management commands (SpecCmd, Spec)      *)
(***************************************************************************)
\* the ids the most recent call gave to new version rows
Allocated ==
    {v \in DOMAIN indexversion_tbl :
        /\ indexversion_tbl[v].row
        /\ (v \notin DOMAIN pre.iv \/ ~pre.iv[v].row)}

\* C11: the id of every version row a call allocates is greater than every
\* id given before to a version of the same Index, soft-deleted and removed
\* rows included.
C11_NewVersionIdGreater ==
    \A v \in Allocated :
        \A u \in DOMAIN pre.iv :
            pre.iv[u].index = indexversion_tbl[v].index => u < v

\* a version allocated for an Index one of whose earlier rows was removed
C11_Witness ==
    \E v \in Allocated :
        \E u \in DOMAIN pre.iv :
            /\ pre.iv[u].index = indexversion_tbl[v].index
            /\ ~pre.iv[u].row

\* two serialized schemas with the same keys and values
SameItems(d1, d2) ==
    {d1[k] : k \in DOMAIN d1} = {d2[k] : k \in DOMAIN d2}

\* C12: a create without force for one Index, with a schema that has the
\* keys and values of the schema of the Index's latest version, in whatever
\* order, allocates no version: the two have one fingerprint.
C12_FingerprintOrderInvariant ==
    (/\ last.kind = ACTION_CREATE_INDEX
     /\ ~last.force
     /\ ~last.es_only
     /\ last.index_name \in Indexes
     /\ get_latest_version(pre, last.index_name) # NULL
     /\ \E d1, d2 \in SchemaDicts :
           /\ SameItems(d1, d2)
           /\ get_index_hash_and_json(d1) = last.h
           /\ get_index_hash_and_json(d2) =
                 pre.iv[get_latest_version(pre, last.index_name)].json_md5)
        => Allocated = {}

\* the most recent call is a drop of the version named exactly, with force
\* and no other flag, and that version was the active version of its Index
ForcedDropOfActive(v) ==
    /\ last.kind = ACTION_DROP_INDEX
    /\ last.force
    /\ ~last.older_mode
    /\ ~last.es_only
    /\ ~last.hard_delete
    /\ v = last.version_id
    /\ v \in DOMAIN pre.iv
    /\ pre.iv[v].row
    /\ pre.index[pre.iv[v].index] = v

\* C13: a forced drop of the explicitly named active version keeps its row,
\* sets its deleted_time, sets the active_version of its Index to null and
\* leaves every other version row as it was.
C13_ForcedDropOfActive ==
    \A v \in DOMAIN pre.iv :
        ForcedDropOfActive(v) =>
            /\ last.exc = "none"
            /\ DOMAIN indexversion_tbl = DOMAIN pre.iv
            /\ indexversion_tbl[v].row
            /\ indexversion_tbl[v].deleted_time
            /\ index_tbl[indexversion_tbl[v].index] = NULL
            /\ \A u \in DOMAIN pre.iv \ {v} : indexversion_tbl[u] = pre.iv[u]

\* such a drop, of an active version that was not deleted, beside another
\* version of the Index
C13_Witness ==
    \E v \in DOMAIN pre.iv :
        /\ ForcedDropOfActive(v)
        /\ ~pre.iv[v].deleted_time
        /\ \E u \in DOMAIN pre.iv \ {v} : pre.iv[u].index = pre.iv[v].index

\* C14: a drop with es_only, of a version named exactly, of every version
\* of an Index or in older mode, leaves every version row, its deleted_time
\* included, and every active_version as they were.
C14_EsOnlyDropKeepsRegistry ==
    (last.kind = ACTION_DROP_INDEX /\ last.es_only)
        => /\ indexversion_tbl = pre.iv
           /\ index_tbl = pre.index

\* the Indexes the most recent call was made for
CalledFor == IF last.index_name = "all" THEN Indexes ELSE {last.index_name}

\* C15: after a create with es_only, every available version of the
\* environment prefix of the Indexes it was made for exists physically, and
\* the version rows and every active_version are what they were.
C15_CreateEsOnly ==
    (last.kind = ACTION_CREATE_INDEX /\ last.es_only /\ last.exc = "none")
        => /\ indexversion_tbl = pre.iv
           /\ index_tbl = pre.index
           /\ \A i \in CalledFor :
                 get_available_versions_with_prefix(DB, i, environment_prefix)
                    \subseteq es_indices

\* a create with es_only that found an available version missing in
\* Elasticsearch
C15_Witness ==
    /\ last.kind = ACTION_CREATE_INDEX
    /\ last.es_only
    /\ last.exc = "none"
    /\ \E i \in CalledFor :
          \E v \in get_available_versions_with_prefix(DB, i, environment_prefix) :
              v \notin pre.es /\ v \in es_indices

\* the rows of Index i in the registry the most recent call found
PreRowsOf(i) == {v \in DOMAIN pre.iv : pre.iv[v].row /\ pre.iv[v].index = i}

\* the highest id among the rows of Index i that the most recent call found
\* not deleted and of the environment prefix; NULL when there is none
PreHighestAvailable(i) ==
    IF \E v \in PreRowsOf(i) :
          ~pre.iv[v].deleted_time /\ pre.iv[v].prefix = environment_prefix
    THEN Max({v \in PreRowsOf(i) : ~pre.iv[v].deleted_time
                                    /\ pre.iv[v].prefix = environment_prefix})
    ELSE NULL

ActivateLatestCalled ==
    /\ last.kind = ACTION_ACTIVATE_INDEX
    /\ last.version_id = NULL
    /\ last.index_name \in Indexes

\* C16: a create for an Index without versions leaves it with one version,
\* which is not active; an activate without a version id makes the highest
\* available version of the prefix the active one, changes nothing when that
\* version is active already, and raises NoCreatedIndexVersion, with every
\* active_version as it was, when there is no such version.
C16_CreateThenActivateLatest ==
    /\ (/\ last.kind = ACTION_CREATE_INDEX
        /\ ~last.es_only
        /\ last.exc = "none"
        /\ last.index_name \in Indexes
        /\ PreRowsOf(last.index_name) = {})
          => /\ Cardinality({v \in LiveRows(DB) :
                    indexversion_tbl[v].index = last.index_name}) = 1
             /\ \A v \in LiveRows(DB) :
                    indexversion_tbl[v].index = last.index_name
                        => /\ ~indexversion_tbl[v].deleted_time
                           /\ \A i \in Indexes : index_tbl[i] # v
    /\ (ActivateLatestCalled /\ PreHighestAvailable(last.index_name) # NULL)
          => /\ last.exc = "none"
             /\ index_tbl[last.index_name] = PreHighestAvailable(last.index_name)
             /\ \A i \in Indexes \ {last.index_name} : index_tbl[i] = pre.index[i]
             /\ indexversion_tbl = pre.iv
    /\ (/\ ActivateLatestCalled
        /\ PreHighestAvailable(last.index_name) # NULL
        /\ pre.index[last.index_name] = PreHighestAvailable(last.index_name))
          => Registry = pre
    /\ (ActivateLatestCalled /\ PreHighestAvailable(last.index_name) = NULL)
          => /\ last.exc = "NoCreatedIndexVersion"
             /\ index_tbl = pre.index
             /\ indexversion_tbl = pre.iv

\* an activate without a version id that found the latest version, created
\* by the first create for its Index, active already
C16_Witness ==
    /\ ActivateLatestCalled
    /\ Cardinality(PreRowsOf(last.index_name)) = 1
    /\ PreHighestAvailable(last.index_name) # NULL
    /\ pre.index[last.index_name] = PreHighestAvailable(last.index_name)
    /\ last.exc = "none"

\* the version a drop in older mode takes as its pivot: the version named
\* exactly, else the active version of the Index named
OlderPivot ==
    IF last.version_id # NULL THEN last.version_id
    ELSE pre.index[last.index_name]

\* C17: a drop in older mode without force, whose pivot has an older
\* available version, raises CannotDropOlderIndexesWithoutForceArg and leaves
\* every version row, every physical index and every active_version as it
\* was, for the active version of a named Index and for a version named
\* exactly.
C17_OlderDropNeedsForce ==
    (/\ last.kind = ACTION_DROP_INDEX
     /\ last.older_mode
     /\ ~last.force
     /\ last.index_name \in Indexes
     /\ OlderPivot \in PreRowsOf(last.index_name)
     /\ \E u \in PreRowsOf(last.index_name) :
            u < OlderPivot /\ ~pre.iv[u].deleted_time)
        => /\ last.exc = "CannotDropOlderIndexesWithoutForceArg"
           /\ indexversion_tbl = pre.iv
           /\ es_indices = pre.es
           /\ index_tbl = pre.index

\* a drop of all versions of a named Index, not in older mode, that found an
\* available version of the environment prefix
DropByBaseName ==
    /\ last.kind = ACTION_DROP_INDEX
    /\ last.version_id = NULL
    /\ last.index_name \in Indexes
    /\ PreHighestAvailable(last.index_name) # NULL

\* C18: a drop by base name of an Index with an available version raises
\* IndexVersionRequired, or CannotDropOlderIndexesWithoutForceArg in older
\* mode, when force is off, and then every version row, every physical index
\* and every active_version is as it was; with force, and not in older mode,
\* every version of the Index that was available is dropped: its physical
\* index is gone and its row is marked deleted, or removed by a hard delete.
C18_BaseNameDropNeedsForce ==
    /\ (DropByBaseName /\ ~last.force)
          => /\ last.exc = (IF last.older_mode
                            THEN "CannotDropOlderIndexesWithoutForceArg"
                            ELSE "IndexVersionRequired")
             /\ indexversion_tbl = pre.iv
             /\ es_indices = pre.es
             /\ index_tbl = pre.index
    /\ (DropByBaseName /\ last.force /\ ~last.older_mode)
          => /\ last.exc = "none"
             /\ \A v \in PreRowsOf(last.index_name) :
                   ~pre.iv[v].deleted_time
                      => /\ v \notin es_indices
                         /\ IF last.es_only THEN indexversion_tbl[v] = pre.iv[v]
                            ELSE IF last.hard_delete THEN ~indexversion_tbl[v].row
                            ELSE /\ indexversion_tbl[v].row
                                 /\ indexversion_tbl[v].deleted_time

\* a forced drop by base name that dropped a version which was in
\* Elasticsearch, after a drop action of the same Index was aborted
C18_Witness ==
    /\ DropByBaseName
    /\ last.force
    /\ ~last.older_mode
    /\ last.exc = "none"
    /\ \E v \in PreRowsOf(last.index_name) : ~pre.iv[v].deleted_time /\ v \in pre.es
    /\ \E a \in DOMAIN indexaction_tbl :
          /\ indexaction_tbl[a].row
          /\ indexaction_tbl[a].action = ACTION_DROP_INDEX
          /\ indexaction_tbl[a].index = last.index_name
          /\ indexaction_tbl[a].status = STATUS_ABORTED

\* the version a completed activate made active: the one named exactly,
\* else the highest available one of the Index
Activated ==
    IF last.version_id # NULL THEN last.version_id
    ELSE PreHighestAvailable(last.index_name)

ActivateCompleted ==
    /\ last.kind = ACTION_ACTIVATE_INDEX
    /\ last.exc = "none"
    /\ last.index_name \in Indexes

C20_LookupAfterDropOfActive ==
    \A v \in DOMAIN pre.iv :
        (ForcedDropOfActive(v) /\ last.exc = "none")
            => get_active_index_version_name(DB, pre.iv[v].index) = <<>>

(***************************************************************************)
(* Properties of a long-running process beside other processes (SpecProc)  *)
(***************************************************************************)
\* C21: once another process has completed an activate that changed the
\* active version of an Index, the lookup of the active version name in
\* this process gives the name of the version that is active in the
\* database.
C21_LookupAfterActivateElsewhere ==
    (/\ last.process = OTHER_PROCESS
     /\ last.kind = ACTION_ACTIVATE_INDEX
     /\ last.exc = "none"
     /\ index_tbl[last.index_name] # pre.index[last.index_name])
        => get_active_index_version_name(DB, last.index_name)
              = IndexVersion_name(DB, index_tbl[last.index_name])

(***************************************************************************)
(* Properties of the older and newer modes (SpecFan), of update (SpecData)  *)
(* and of create (SpecCreate)                                              *)
(***************************************************************************)
\* the most recent call fanned out: a drop in older mode or an update in
\* newer mode, for a named Index
FanOutCalled ==
    /\ last.index_name \in Indexes
    /\ \/ last.kind = ACTION_DROP_INDEX /\ last.older_mode
       \/ last.kind = ACTION_UPDATE_INDEX /\ last.newer_mode

\* the pivot of the fan-out: the version named exactly, else the active
\* version
Pivot ==
    IF last.version_id # NULL THEN last.version_id
    ELSE pre.index[last.index_name]

\* the versions of the Index the call found not deleted, below the pivot in
\* older mode and above it in newer mode
Targets ==
    {u \in PreRowsOf(last.index_name) :
        /\ ~pre.iv[u].deleted_time
        /\ IF last.older_mode THEN u < Pivot ELSE u > Pivot}

\* the child rows of the action of the most recent call
Kids ==
    {a \in DOMAIN indexaction_tbl :
        indexaction_tbl[a].row /\ indexaction_tbl[a].parent = last.pk}

C23_ChildFailureOnlyReported ==
    (/\ FanOutCalled
     /\ Pivot \in DOMAIN pre.iv
     /\ pre.iv[Pivot].row
     /\ \E a \in Kids : indexaction_tbl[a].status # STATUS_COMPLETE)
        => /\ indexaction_tbl[last.pk].status = STATUS_COMPLETE
           /\ last.exc = "none"
           /\ {indexaction_tbl[a].index_version : a \in Kids} = Targets

\* the most recent call was an update in newer mode that completed and whose
\* pivot is a version row
NewerUpdateCompleted ==
    /\ FanOutCalled
    /\ last.kind = ACTION_UPDATE_INDEX
    /\ last.exc = "none"
    /\ Pivot \in DOMAIN pre.iv
    /\ pre.iv[Pivot].row

\* the documents the most recent call wrote, with the version they went to
Written == es_docs \ pre.docs

\* the docs_affected of the action rows S, added up
RECURSIVE DocsAffectedOf(_)
DocsAffectedOf(S) ==
    IF S = {} THEN 0
    ELSE LET a == CHOOSE x \in S : TRUE
         IN indexaction_tbl[a].docs_affected + DocsAffectedOf(S \ {a})

\* C24: after a completed update in newer mode the docs_affected of the
\* parent is the sum of the docs_affected of its children, the parent has no
\* version, and no document was written to the pivot or to an older version.
C24_NewerUpdateTotals ==
    NewerUpdateCompleted
        => /\ indexaction_tbl[last.pk].docs_affected = DocsAffectedOf(Kids)
           /\ indexaction_tbl[last.pk].index_version = NULL
           /\ \A w \in Written : w[1] > Pivot

\* the update actions with a version which the most recent call made and
\* which completed: the action of the call, or its children in newer mode
CompletedUpdates ==
    {a \in DOMAIN indexaction_tbl :
        /\ indexaction_tbl[a].row
        /\ a >= last.pk
        /\ indexaction_tbl[a].action = ACTION_UPDATE_INDEX
        /\ indexaction_tbl[a].index_version # NULL
        /\ indexaction_tbl[a].status = STATUS_COMPLETE}

\* the update actions of version v which were complete before the call: an
\* update changes no row older than its own
CompleteBefore(v) ==
    {b \in DOMAIN indexaction_tbl :
        /\ b < last.pk
        /\ indexaction_tbl[b].row
        /\ indexaction_tbl[b].action = ACTION_UPDATE_INDEX
        /\ indexaction_tbl[b].status = STATUS_COMPLETE
        /\ indexaction_tbl[b].index_version = v}

\* the cutoff the call has to use for version v
ExpectedCutoff(v) ==
    IF last.start_date # NULL THEN last.start_date
    ELSE IF last.resume_mode /\ CompleteBefore(v) # {}
    THEN indexaction_tbl[Max(CompleteBefore(v))].last_modified
    ELSE NULL

\* the records selected with the cutoff t
SelectedFrom(t) ==
    {d \in SourceDocs : t = NULL \/ DOC_MODIFIED[d] >= t}

\* C25: a completed update of a version used as its cutoff the start date
\* when one was given, with or without resume mode; else in resume mode the
\* time of the latest update action of that version that was complete before
\* the call; else none. It logged that cutoff, wrote the records modified at
\* or after it to the version its doc type resolves to, and counted them.
C25_CutoffOfUpdate ==
    last.kind = ACTION_UPDATE_INDEX
        => \A a \in CompletedUpdates :
              \A t \in {ExpectedCutoff(indexaction_tbl[a].index_version)} :
                 /\ indexaction_tbl[a].docs_affected
                       = Cardinality(SelectedFrom(t))
                 /\ last.start_date # NULL
                       => \E k \in DOMAIN indexaction_tbl[a].log :
                             indexaction_tbl[a].log[k]
                                = <<"start detected", t, "">>
                 /\ (last.start_date = NULL /\ last.resume_mode)
                       => \E k \in DOMAIN indexaction_tbl[a].log :
                             indexaction_tbl[a].log[k] = <<"resume", t, "">>
                 /\ \A d \in SelectedFrom(t) :
                       \E w \in es_docs : w[2] = d

\* an update in resume mode, with no start date, of a version that had a
\* completed update and an aborted one after it: one of the two records is
\* older than the cutoff and was left out
C25_Witness ==
    /\ last.kind = ACTION_UPDATE_INDEX
    /\ last.resume_mode
    /\ last.start_date = NULL
    /\ \E a \in CompletedUpdates :
          /\ CompleteBefore(indexaction_tbl[a].index_version) # {}
          /\ indexaction_tbl[a].docs_affected = 1
          /\ \E b \in DOMAIN indexaction_tbl :
                /\ b < last.pk
                /\ indexaction_tbl[b].row
                /\ indexaction_tbl[b].action = ACTION_UPDATE_INDEX
                /\ indexaction_tbl[b].status = STATUS_ABORTED
                /\ indexaction_tbl[b].index_version
                      = indexaction_tbl[a].index_version
                /\ b > Max(CompleteBefore(indexaction_tbl[a].index_version))

\* an update given both a start date and resume mode completed
C25_WitnessBoth ==
    /\ last.kind = ACTION_UPDATE_INDEX
    /\ last.resume_mode
    /\ last.start_date # NULL
    /\ CompletedUpdates # {}

\* the most recent call was a create which allocated a new IndexVersion row
CreateAllocated ==
    /\ last.kind = ACTION_CREATE_INDEX
    /\ last.index_name \in Indexes
    /\ Len(indexversion_tbl) = Len(pre.iv) + 1
    /\ indexversion_tbl[Len(indexversion_tbl)].index = last.index_name

\* the versions of Index i the most recent call found not deleted
PreAvailable(i) == {v \in PreRowsOf(i) : ~pre.iv[v].deleted_time}

\* C26: when a create allocated a new version and Elasticsearch failed the
\* physical create with an error other than "already exists", the action is
\* aborted, the error is raised, and the available versions and the latest
\* version of the Index are those from before the call; when Elasticsearch
\* answered "already exists", the action is complete and the new version is
\* available and the latest.
C26_CreateRollsBack ==
    CreateAllocated
        => /\ last.es_resp = "error"
                => /\ last.exc = "TransportError"
                   /\ indexaction_tbl[last.pk].status = STATUS_ABORTED
                   /\ get_available_versions(DB, last.index_name)
                         = PreAvailable(last.index_name)
                   /\ get_latest_version(DB, last.index_name)
                         = PreHighestAvailable(last.index_name)
           /\ last.es_resp = ES_EXISTS
                => /\ last.exc = "none"
                   /\ indexaction_tbl[last.pk].status = STATUS_COMPLETE
                   /\ Len(indexversion_tbl)
                         \in get_available_versions(DB, last.index_name)
                   /\ get_latest_version(DB, last.index_name)
                         = Len(indexversion_tbl)

\* a forced create of an Index with an available version allocated a new
\* version and Elasticsearch failed the physical create
C26_Witness ==
    /\ CreateAllocated
    /\ last.force
    /\ last.es_resp = "error"
    /\ last.exc = "TransportError"
    /\ PreAvailable(last.index_name) # {}
    /\ indexversion_tbl[Len(indexversion_tbl)].deleted_time

\* a create allocated a new version and Elasticsearch answered that the
\* index exists
C26_WitnessExists ==
    /\ CreateAllocated
    /\ last.es_resp = ES_EXISTS
    /\ last.exc = "none"

\* C27: no step deletes an IndexAction row: a row of the table before a
\* call is a row of the table after it.
C27_ActionsNeverDeleted ==
    [][\A a \in DOMAIN indexaction_tbl :
          indexaction_tbl[a].row
             => /\ a \in DOMAIN indexaction_tbl'
                /\ indexaction_tbl'[a].row]_vars

\* C28: a call given a name of an unregistered index raises DEMIndexNotFound
\* and saves no Index, IndexVersion or IndexAction row.
C28_UnresolvedNameNoRows ==
    last.index_name = UNREGISTERED
        => /\ last.exc = "DEMIndexNotFound"
           /\ last.pk = NULL
           /\ UNREGISTERED \notin DOMAIN index_tbl
           /\ Len(indexversion_tbl) = Len(pre.iv)
           /\ \A a \in DOMAIN indexaction_tbl :
                 indexaction_tbl[a].index # UNREGISTERED

\* C29: a deactivation given the exact name of a version clears the active
\* version of the Index when that version is the active one, and leaves the
\* active version as it was otherwise.
C29_DeactivateExplicitVersion ==
    (/\ last.kind \in {CMD_DEACTIVATE, CMD_ACTIVATE_DEACTIVATE}
     /\ last.version_id # NULL
     /\ last.index_name \in Indexes)
        => IF pre.index[last.index_name] = last.version_id
           THEN index_tbl[last.index_name] = NULL
           ELSE index_tbl[last.index_name] = pre.index[last.index_name]

\* a start of the process whose initialize returned
ReadyCompleted == last.kind = CMD_READY /\ last.exc = "none"

NewRootRows ==
    {a \in DOMAIN indexaction_tbl' :
        /\ a \notin DOMAIN indexaction_tbl
        /\ indexaction_tbl'[a].row
        /\ indexaction_tbl'[a].parent = NULL}

\* C31: a call for all the registered indexes that completes leaves one new
\* root IndexAction row for each of them: as many new root rows as there are
\* indexes, and for each index one of the kind of the call that refers to it
\* and is complete.
C31_OneActionPerIndex ==
    [][(/\ nOps' = nOps + 1
        /\ last'.index_name = "all"
        /\ last'.kind \in {ACTION_CREATE_INDEX, ACTION_ACTIVATE_INDEX}
        /\ last'.exc = "none")
          => /\ Cardinality(NewRootRows) = Cardinality(Indexes)
             /\ \A i \in Indexes :
                   \E a \in NewRootRows :
                      /\ indexaction_tbl'[a].index = i
                      /\ indexaction_tbl'[a].action = last'.kind
                      /\ indexaction_tbl'[a].status = STATUS_COMPLETE]_vars

\* how often the action of row a was started: the entries in_progress of
\* the history of its status
Executions(a) ==
    Cardinality({k \in DOMAIN indexaction_tbl[a].hist :
                    indexaction_tbl[a].hist[k] = STATUS_IN_PROGRESS})

PartialRows ==
    {a \in DOMAIN indexaction_tbl :
        /\ indexaction_tbl[a].row
        /\ indexaction_tbl[a].action = ACTION_PARTIAL_UPDATE_INDEX}

\* C32: no PartialUpdateIndexAction is executed more than once, and after
\* an update that completed every PartialUpdateIndexAction was executed
\* exactly once.
C32_PartialExecutedOnce ==
    /\ \A a \in PartialRows : Executions(a) <= 1
    /\ (last.kind = ACTION_UPDATE_INDEX /\ last.exc = "none")
          => \A a \in PartialRows : Executions(a) = 1

(***************************************************************************)
(* Properties of the task parameters and of the chunks (SpecUpdate)        *)
(***************************************************************************)
\* C33: max_batch_num of every PartialUpdateIndexAction is the number of
\* chunks generated, ceil(N / B), and batch_num lies between 1 and it.
C33_MaxBatchNum ==
    upd_pc # "idle" =>
        \A k \in 1..Len(chunks) :
           /\ chunks[k].max_batch_num = Len(chunks)
           /\ chunks[k].max_batch_num
                 = (Len(qs_ids) + batch_size - 1) \div batch_size
           /\ chunks[k].batch_num \in 1..chunks[k].max_batch_num

\* the chunks check_child_statuses logged as failing
LoggedBadChunks ==
    {parent_row.log[k][2] - 1 :
        k \in {j \in DOMAIN parent_row.log : parent_row.log[j][1] = "bad child"}}

SuccessReported ==
    \E k \in DOMAIN parent_row.log :
       parent_row.log[k] = <<"all children complete", 0, "">>

\* C34: check_child_statuses of the update reports success exactly when
\* every chunk is complete; otherwise the chunks it logs as failing are
\* exactly the chunks whose status is not complete.
C34_ChildReport ==
    upd_pc = "done" =>
        /\ SuccessReported <=> AllComplete
        /\ ~AllComplete =>
              LoggedBadChunks = {i \in 1..Len(chunks) :
                                    chunks[i].status # STATUS_COMPLETE}

\* C35: every PartialUpdateIndexAction row has a parent, the parent is an
\* UpdateIndexAction, and the parent was started and has ended: in_progress
\* is in the history of its status and its status is complete or aborted.
C35_PartialHasUpdateParent ==
    \A a \in PartialRows :
       LET b == indexaction_tbl[a].parent
       IN /\ b # NULL
          /\ b \in DOMAIN indexaction_tbl
          /\ indexaction_tbl[b].row
          /\ indexaction_tbl[b].action = ACTION_UPDATE_INDEX
          /\ Executions(b) >= 1
          /\ indexaction_tbl[b].status \in {STATUS_COMPLETE, STATUS_ABORTED}

Ended(st) == st \in {STATUS_COMPLETE, STATUS_ABORTED}

\* C36: an IndexAction row has end set exactly when its status is complete
\* or aborted, now and at every save that gave it a new status.
C36_EndIffTerminal ==
    \A a \in DOMAIN indexaction_tbl :
       indexaction_tbl[a].row =>
          /\ indexaction_tbl[a].end <=> Ended(indexaction_tbl[a].status)
          /\ \A k \in DOMAIN indexaction_tbl[a].hist :
                indexaction_tbl[a].ends[k] <=> Ended(indexaction_tbl[a].hist[k])

(***************************************************************************)
(* Properties of the version an action records (SpecClear)                 *)
(***************************************************************************)
\* the version the action of the last call recorded
Recorded == indexaction_tbl[last.pk].index_version

LastCompleted(kind) ==
    /\ last.kind = kind
    /\ last.exc = "none"
    /\ last.pk # NULL
    /\ indexaction_tbl[last.pk].row

\* C37: the version an IndexAction refers to is a version of the Index of
\* the action; the version a completed clear without older mode recorded is
\* the version whose documents it removed, and the version a completed
\* activate recorded is the active version of the Index it was called for.
C37_RecordedVersionOperatedOn ==
    /\ \A a \in DOMAIN indexaction_tbl :
          (/\ indexaction_tbl[a].row
           /\ indexaction_tbl[a].index_version \in LiveRows(DB))
             => indexversion_tbl[indexaction_tbl[a].index_version].index
                   = indexaction_tbl[a].index
    /\ (LastCompleted(ACTION_CLEAR_INDEX) /\ ~last.older_mode)
          => /\ Recorded # NULL
             /\ \A d \in pre.docs \ es_docs : d[1] = Recorded
             /\ \A d \in es_docs : d[1] # Recorded
    /\ (LastCompleted(ACTION_ACTIVATE_INDEX) /\ Recorded # NULL)
          => index_tbl[last.index_name] = Recorded

C39_NoChunkLeftBehind ==
    upd_pc \in {"done", "raised"} =>
        \A i \in 1..Len(chunks) :
            chunks[i].status \in {STATUS_COMPLETE, STATUS_ABORTED}

(***************************************************************************)
(* Properties of an activate and a drop that run together (SpecRace)       *)
(***************************************************************************)
\* C40: when the activate of the latest version and the forced drop of that
\* version have both ended, in whatever order their reads and writes were
\* made, the Index's active_version is null or a version that is not
\* soft-deleted.
C40_ActiveNotDeletedAfterRace ==
    (activate_proc.pc \in {"done", "raised"} /\ drop_proc.pc = "done") =>
        \/ index_tbl[drop_proc.index] = NULL
        \/ ~indexversion_tbl[index_tbl[drop_proc.index]].deleted_time

====
